---- MODULE Spec2Model ----
(***************************************************************************)
(* Model of the data reconciliation pipeline of the COVID dashboard         *)
(* repository: the cleaners and the type cast of dataframe_cleaner.py, the  *)
(* joiner of dataframe_combiner.py and the geo aggregation of               *)
(* data_loader.py.                                                          *)
(*                                                                          *)
(* A table (pandas DataFrame) is a sequence of rows; a row is a record      *)
(* whose fields are the columns.  A missing string is NA, a missing number  *)
(* or date is NaN.  A date is the integer yyyymmdd, a month period the      *)
(* integer yyyymm.  A Population value counts quarters of a person          *)
(* (Quarter * persons), so that the division by 4 of the redistribution is  *)
(* exact, as it is in binary floating point.  A rate is the exact fraction  *)
(* <<n, d>> in lowest terms, with <<1, 0>> for inf and <<0, 0>> for NaN.    *)
(***************************************************************************)
EXTENDS Integers, Sequences, FiniteSets, TLC

VARIABLES pc, raw_cases, raw_hospital, raw_population, boundaries,
          df_cases, df_hospital, df_population, df_covid, df_final,
          gdf_mun, gdf_prov, gdf_nl, df_typed, schema_call, dashboard, aliased

\* aliased: the parameters of the last call whose object is the table the call
\* returned (none when the returned table is a fresh one)

vars == <<pc, raw_cases, raw_hospital, raw_population, boundaries,
          df_cases, df_hospital, df_population, df_covid, df_final,
          gdf_mun, gdf_prov, gdf_nl, df_typed, schema_call, dashboard, aliased>>

----------------------------------------------------------------------------
(* Missing values and column types *)

NA == "NaN"

NaN == 0 - 1

NumCols == {"Date", "Year", "Month", "Total_reported", "Deceased",
            "Hospital_admission", "Population"}

RateCols == {"Incidence_rate_cases", "Incidence_rate_deaths",
             "Incidence_rate_hospital_admission", "Incidence_rate_hospital"}

\* a rate is a fraction <<n, d>>; <<0, 0>> is the missing rate, <<1, 0>> is inf
NaNRate == <<0, 0>>

InfRate == <<1, 0>>

IsNA(col, v) ==
    IF col \in NumCols THEN v = NaN
    ELSE IF col \in RateCols THEN v = NaNRate
    ELSE IF col = "geometry" THEN FALSE
    ELSE v = NA

\* Python's order on the strings the model uses (codes, names, provinces).
StrOrder == <<"GM0363", "GM0501", "GM0530", "GM0599", "GM0614", "GM0757",
              "GM0788", "GM0824", "GM0855", "GM0865", "GM1992",
              "Amsterdam", "Brielle", "Hellevoetsluis", "Noord-Holland",
              "PV27", "Rotterdam", "Tilburg", "Voorne aan Zee", "Westvoorne", "Zuid-Holland", "NaN">>

Rank(s) == CHOOSE i \in 1..Len(StrOrder) : StrOrder[i] = s

LessVal(col, a, b) == IF col \in NumCols THEN a < b ELSE Rank(a) < Rank(b)

----------------------------------------------------------------------------
(* Sequence helpers *)

Range(s) == {s[i] : i \in 1..Len(s)}

RECURSIVE Flatten(_)
Flatten(ss) == IF ss = <<>> THEN <<>> ELSE Head(ss) \o Flatten(Tail(ss))

MapSeq(s, F(_)) == [i \in 1..Len(s) |-> F(s[i])]

\* Series.sum(): missing values are skipped, the empty sum is 0.
RECURSIVE SumCol(_, _)
SumCol(rows, col) ==
    IF rows = <<>> THEN 0
    ELSE (IF Head(rows)[col] = NaN THEN 0 ELSE Head(rows)[col])
         + SumCol(Tail(rows), col)

SeqsUpTo(D, n) == UNION {[1..k -> D] : k \in 0..n}

----------------------------------------------------------------------------
(* Tables as objects: a name is bound to an object, an object holds a table *)

\* a call starts with parameter i bound to object i, the table of the caller
StartCall(names, tables) ==
    [heap |-> tables,
     env  |-> [n \in Range(names) |-> CHOOSE i \in 1..Len(names) : names[i] = n]]

\* the table of the object a name is bound to
TableOf(st, n) == st.heap[st.env[n]]

\* name = <an expression that builds a table>: the name is bound to a new
\* object (df.dropna(...), df[mask], df[[...]], pd.merge, groupby().agg, concat)
Bind(st, n, table) ==
    [heap |-> Append(st.heap, table),
     env  |-> [m \in DOMAIN st.env \cup {n} |->
                  IF m = n THEN Len(st.heap) + 1 ELSE st.env[m]]]

\* name[col] = ..., name.loc[mask, col] += ..., name.rename(inplace=True),
\* name.drop(inplace=True): the object the name is bound to is written
WriteInPlace(st, n, table) == [st EXCEPT !.heap[st.env[n]] = table]

\* to = from, without the copy: both names are bound to one object
CopySkipped(st, to, from) ==
    [heap |-> st.heap,
     env  |-> [m \in DOMAIN st.env \cup {to} |->
                  IF m = to THEN st.env[from] ELSE st.env[m]]]

\* to = from.copy()
Copy(st, to, from) == Bind(st, to, TableOf(st, from))

\* the table of parameter i of the call, as the caller finds it afterwards
CallerTable(st, i) == st.heap[i]

\* the parameters bound at the start to the object the name n is bound to at
\* the end: the returned table is a fresh one when there is none
ParametersSharing(st, names, n) ==
    {names[i] : i \in {j \in 1..Len(names) : j = st.env[n]}}

----------------------------------------------------------------------------
(* DataFrame.groupby(keys, as_index=False).agg({c: "sum"}) *)

KeyOf(r, keys) == [i \in 1..Len(keys) |-> r[keys[i]]]

KeyHasNA(k, keys) == \E i \in 1..Len(keys) : IsNA(keys[i], k[i])

\* lexicographic order on key tuples
KeyLess(a, b, keys) ==
    \E i \in 1..Len(keys) :
        /\ \A j \in 1..(i - 1) : a[j] = b[j]
        /\ a[i] # b[i]
        /\ LessVal(keys[i], a[i], b[i])

RECURSIVE SortKeys(_, _)
SortKeys(S, keys) ==
    IF S = {} THEN <<>>
    ELSE LET m == CHOOSE x \in S : \A y \in S : x = y \/ KeyLess(x, y, keys)
         IN  <<m>> \o SortKeys(S \ {m}, keys)

\* the keys of the rows of a table
GroupKeysAll(rows, keys) == {KeyOf(r, keys) : r \in Range(rows)}

\* groups whose key holds a missing value are dropped (dropna=True default)
GroupKeys(rows, keys) == {k \in GroupKeysAll(rows, keys) : ~KeyHasNA(k, keys)}

GroupRow(rows, keys, aggs, k) ==
    LET members == SelectSeq(rows, LAMBDA r : KeyOf(r, keys) = k)
        pos(c)  == CHOOSE i \in 1..Len(keys) : keys[i] = c
    IN  [c \in Range(keys) \cup aggs |->
            IF c \in aggs THEN SumCol(members, c) ELSE k[pos(c)]]

GroupBySum(rows, keys, aggs) ==
    LET ks == SortKeys(GroupKeys(rows, keys), keys)
    IN  [i \in 1..Len(ks) |-> GroupRow(rows, keys, aggs, ks[i])]

----------------------------------------------------------------------------
(* clean_cases_df *)

\* pd.to_datetime(errors="coerce") on the date strings of the extracts
ToDatetime(s) ==
    CASE s = "2021-01-01" -> 20210101
      [] s = "2021-01-02" -> 20210102
      [] s = "2022-02-01" -> 20220201
      [] OTHER -> NaN

YearOfDate(d) == d \div 10000

MonthOfDate(d) == d \div 100

old_codes == {"GM0501", "GM0530", "GM0614"}

new_code == "GM1992"

new_name == "Voorne aan Zee"

old_names == {"Brielle", "Hellevoetsluis", "Westvoorne"}

ParseCaseDates(df) ==
    MapSeq(df, LAMBDA r :
        [Date |-> ToDatetime(r.Date_of_publication),
         Municipality_code |-> r.Municipality_code,
         Municipality_name |-> r.Municipality_name,
         Province |-> r.Province,
         Total_reported |-> r.Total_reported,
         Deceased |-> r.Deceased])

DropMissingMunicipality(df) ==
    SelectSeq(df, LAMBDA r : r.Municipality_code # NA /\ r.Municipality_name # NA)

ReplaceCode(c) == IF c \in old_codes THEN new_code ELSE c

ReplaceName(n) == IF n \in old_names THEN new_name ELSE n

MergeVoorne(df) ==
    MapSeq(df, LAMBDA r :
        [r EXCEPT !.Municipality_code = ReplaceCode(r.Municipality_code),
                  !.Municipality_name = ReplaceName(r.Municipality_name)])

CaseKeys == <<"Date", "Municipality_code", "Municipality_name", "Province">>

AddYearMonth(df) ==
    MapSeq(df, LAMBDA r :
        [c \in DOMAIN r \cup {"Year", "Month"} |->
            CASE c = "Year"  -> YearOfDate(r.Date)
              [] c = "Month" -> MonthOfDate(r.Date)
              [] OTHER -> r[c]])

\* the statements of clean_cases_df on the objects of the call
CleanCasesCall(df) ==
    LET s0 == StartCall(<<"df">>, <<df>>)
        s1 == Copy(s0, "df", "df")
        s2 == WriteInPlace(s1, "df", ParseCaseDates(TableOf(s1, "df")))
        s3 == Bind(s2, "df", DropMissingMunicipality(TableOf(s2, "df")))
        s4 == WriteInPlace(s3, "df", MergeVoorne(TableOf(s3, "df")))
        s5 == Bind(s4, "df", GroupBySum(TableOf(s4, "df"), CaseKeys,
                                        {"Total_reported", "Deceased"}))
    IN  WriteInPlace(s5, "df", AddYearMonth(TableOf(s5, "df")))

clean_cases_df(df) == TableOf(CleanCasesCall(df), "df")

----------------------------------------------------------------------------
(* Raw case extracts *)

MaxCaseRows == 3

CaseRow(d, c, n, p, t, x) ==
    [Date_of_publication |-> d, Municipality_code |-> c, Municipality_name |-> n,
     Province |-> p, Total_reported |-> t, Deceased |-> x]

LegacyName(c) ==
    CASE c = "GM0501" -> "Brielle"
      [] c = "GM0530" -> "Hellevoetsluis"
      [] c = "GM0614" -> "Westvoorne"
      [] OTHER -> new_name

LegacyCount(c) ==
    CASE c = "GM0501" -> 10
      [] c = "GM0530" -> 5
      [] c = "GM0614" -> 3
      [] OTHER -> 20

\* The rows a raw case extract is drawn from: the three legacy municipalities
\* and their successor under their own or another name and with or without a
\* province, summary rows without municipality, a second date and a date that
\* does not parse.
CaseRowDomain ==
    UNION {{CaseRow("2021-01-01", c, n, p, LegacyCount(c), 1) :
                n \in {LegacyName(c), "Amsterdam"}, p \in {"Zuid-Holland", NA}} :
           c \in old_codes \cup {new_code}}
    \cup {CaseRow("2021-01-01", c, LegacyName(c), "Noord-Holland", LegacyCount(c), 1) :
        c \in {"GM0501"}}
    \cup {CaseRow("2021-01-01", NA, NA, "Zuid-Holland", 40, 2),
          CaseRow("2021-01-01", "GM0530", NA, "Zuid-Holland", 40, 2),
          CaseRow("2021-01-02", "GM0501", "Brielle", "Zuid-Holland", 10, 1),
          CaseRow("not a date", "GM0614", "Westvoorne", "Zuid-Holland", 3, 1)}

\* no transform has been called on a table with a column missing
NoCall == [input |-> "none", columns |-> {}, outcome |-> "none"]

\* no dashboard has been built
NoDashboard == [kind |-> "none"]

InitEmpty ==
    /\ raw_cases = <<>> /\ raw_hospital = <<>> /\ raw_population = <<>>
    /\ boundaries = <<>>
    /\ df_cases = <<>> /\ df_hospital = <<>> /\ df_population = <<>>
    /\ df_covid = <<>> /\ df_final = <<>>
    /\ gdf_mun = <<>> /\ gdf_prov = <<>> /\ gdf_nl = <<>>
    /\ df_typed = <<>>
    /\ schema_call = NoCall
    /\ dashboard = NoDashboard
    /\ aliased = {}

\* load_and_concatenate_csv delivers one more row of the case extract
LoadCaseRow(D, n) ==
    /\ pc = "load_cases"
    /\ Len(raw_cases) < n
    /\ \E r \in D : raw_cases' = Append(raw_cases, r)
    /\ UNCHANGED <<pc, raw_hospital, raw_population, boundaries, df_cases,
                   df_hospital, df_population, df_covid, df_final,
                   gdf_mun, gdf_prov, gdf_nl,
                   df_typed, schema_call, dashboard, aliased>>

CleanCases ==
    /\ pc = "load_cases"
    /\ LET call == CleanCasesCall(raw_cases)
       IN  /\ df_cases' = TableOf(call, "df")
           /\ raw_cases' = CallerTable(call, 1)
           /\ aliased' = ParametersSharing(call, <<"df">>, "df")
    /\ pc' = "cases_cleaned"
    /\ UNCHANGED <<raw_hospital, raw_population, boundaries,
                   df_hospital, df_population, df_covid, df_final,
                   gdf_mun, gdf_prov, gdf_nl,
                   df_typed, schema_call, dashboard>>

InitCases == pc = "load_cases" /\ InitEmpty

NextCases == LoadCaseRow(CaseRowDomain, MaxCaseRows) \/ CleanCases

SpecCases == InitCases /\ [][NextCases]_vars

----------------------------------------------------------------------------
(* Properties of clean_cases_df *)

CaseDates == {ToDatetime(r.Date_of_publication) : r \in Range(raw_cases)} \ {NaN}

\* raw rows of date d with a municipality code in C and a non-null code and name
RawCaseRowsOn(d, C) ==
    SelectSeq(raw_cases, LAMBDA r :
        /\ ToDatetime(r.Date_of_publication) = d
        /\ r.Municipality_code \in C
        /\ r.Municipality_code # NA /\ r.Municipality_name # NA)

CleanCaseRowsOn(d, C) ==
    SelectSeq(df_cases, LAMBDA r : r.Date = d /\ r.Municipality_code \in C)

\* C1: for every date, the Total_reported of the raw rows of the three legacy
\* codes (and of raw GM1992 rows) of that date equals the Total_reported the
\* cleaned table carries for GM1992 on that date.
C1_MergeConservation ==
    pc = "cases_cleaned" =>
        \A d \in CaseDates :
            SumCol(RawCaseRowsOn(d, old_codes \cup {new_code}), "Total_reported")
                = SumCol(CleanCaseRowsOn(d, {new_code}), "Total_reported")

\* C2: raw rows for GM0501, GM0530 and GM0614 on one date (and nothing else)
\* clean to exactly one GM1992 row of that date carrying the sum of the three
\* counts, and to no row of a legacy code.
C2_SingleSuccessorRow ==
    (/\ pc = "cases_cleaned"
     /\ Len(raw_cases) = 3
     /\ {r.Municipality_code : r \in Range(raw_cases)} = old_codes
     /\ \E d \in CaseDates :
            \A r \in Range(raw_cases) : ToDatetime(r.Date_of_publication) = d
     /\ \A r \in Range(raw_cases) : r.Municipality_name # NA)
    => /\ Len(df_cases) = 1
       /\ df_cases[1].Municipality_code = new_code
       /\ df_cases[1].Date \in CaseDates
       /\ df_cases[1].Total_reported = SumCol(raw_cases, "Total_reported")

----------------------------------------------------------------------------
(* clean_population_df *)

\* persons per unit of the Population column: a quarter of a person is 1
Quarter == 4

Persons(n) == n * Quarter

\* the region codes of the model that start with "GM"
GMPrefixed == {"GM0363", "GM0501", "GM0530", "GM0599", "GM0614", "GM0757", "GM0788",
               "GM0824", "GM0855", "GM0865", "GM1992"}

StartsWithGM(s) == s \in GMPrefixed

\* Series.str.extract(r"(\d{4})") on the period strings of the population table
ExtractYear(s) ==
    CASE s = "2020JJ00" -> 2020
      [] s = "2021JJ00" -> 2021
      [] OTHER -> NaN

\* pd.to_numeric(errors="coerce") on the population cells
ToNumeric(s) ==
    CASE s = "4000" -> Persons(4000)
      [] s = "6" -> Persons(6)
      [] s = "0" -> Persons(0)
      [] OTHER -> NaN

fused_municipality_map ==
    [c \in {"GM0370", "GM0398", "GM0416", "GM0457", "GM0501", "GM0530", "GM0614",
            "GM0756", "GM0786", "GM0815", "GM0856", "GM1684", "GM1685", "GM1702",
            "GM0003", "GM0010", "GM0024"} |->
        CASE c = "GM0370" -> "GM0439"
          [] c \in {"GM0398", "GM0416"} -> "GM1980"
          [] c = "GM0457" -> "GM0363"
          [] c \in {"GM0501", "GM0530", "GM0614"} -> "GM1992"
          [] c \in {"GM0756", "GM0786", "GM0815", "GM1684", "GM1702"} -> "GM1982"
          [] c \in {"GM0856", "GM1685"} -> "GM1991"
          [] c \in {"GM0003", "GM0010", "GM0024"} -> "GM1979"]

\* a remap table without the entries of Brielle, Hellevoetsluis and Westvoorne
ReplaceFusedWithoutVoorne(c) ==
    IF c \in DOMAIN fused_municipality_map \ {"GM0501", "GM0530", "GM0614"}
    THEN fused_municipality_map[c] ELSE c

\* a remap table that sends Hellevoetsluis to another successor than the case
\* cleaner does
ReplaceFusedHellevoetsluisApart(c) ==
    IF c = "GM0530" THEN "GM0599"
    ELSE IF c \in DOMAIN fused_municipality_map THEN fused_municipality_map[c] ELSE c

\* a remap table that also sends the dissolved Haaren to Oisterwijk
ReplaceFusedHaarenToo(c) ==
    IF c = "GM0788" THEN "GM0824"
    ELSE IF c \in DOMAIN fused_municipality_map THEN fused_municipality_map[c] ELSE c

\* a remap table that sends Brielle to Amsterdam instead of Voorne aan Zee
ReplaceFusedBrielleElsewhere(c) ==
    IF c = "GM0501" THEN "GM0363"
    ELSE IF c \in DOMAIN fused_municipality_map THEN fused_municipality_map[c] ELSE c

\* a remap table with a chain: Hellevoetsluis is sent to Brielle, itself a key
ReplaceFusedChained(c) ==
    IF c = "GM0530" THEN "GM0501"
    ELSE IF c \in DOMAIN fused_municipality_map THEN fused_municipality_map[c] ELSE c

\* Series.replace(fused_municipality_map)
ReplaceFused(c) ==
    IF c \in DOMAIN fused_municipality_map THEN fused_municipality_map[c] ELSE c

haaren_code == "GM0788"

receiving_codes == <<"GM0824", "GM0865", "GM0757", "GM0855">>

KeepMunicipalities(df) == SelectSeq(df, LAMBDA r : StartsWithGM(r.RegioS))

RenameAndConvert(df) ==
    MapSeq(df, LAMBDA r :
        [Municipality_code |-> r.RegioS,
         Year |-> ExtractYear(r.Perioden),
         Population |-> ToNumeric(r.TotaleBevolking_1)])

ReplaceOutdated(df) ==
    MapSeq(df, LAMBDA r :
        [r EXCEPT !.Municipality_code = ReplaceFused(r.Municipality_code)])

\* Series.unique(): the values in order of first appearance
RECURSIVE Unique(_)
Unique(s) ==
    IF s = <<>> THEN <<>>
    ELSE LET u == Unique(SubSeq(s, 1, Len(s) - 1))
         IN  IF s[Len(s)] \in Range(u) THEN u ELSE Append(u, s[Len(s)])

\* the rows of Haaren whether their population is known or not
HaarenRowsValidOrNot(df) ==
    SelectSeq(df, LAMBDA r : r.Municipality_code = "GM0788")

HaarenValidRows(df) ==
    SelectSeq(df, LAMBDA r : r.Municipality_code = haaren_code /\ r.Population # NaN)

HaarenYears(df) == Unique(MapSeq(HaarenValidRows(df), LAMBDA r : r.Year))

\* float addition: a missing operand gives a missing result
AddNum(a, b) == IF a = NaN \/ b = NaN THEN NaN ELSE a + b

\* the whole population given to each successor
SplitPopulationWhole(p) == p

SplitPopulation(p) == p \div Quarter

\* one pass of the inner loop: code receives split for year
GiveTo(df, code, year, split) ==
    IF \A r \in Range(df) : ~(r.Municipality_code = code /\ r.Year = year)
    THEN Append(df, [Municipality_code |-> code, Year |-> year, Population |-> split])
    ELSE MapSeq(df, LAMBDA r :
            IF r.Municipality_code = code /\ r.Year = year
            THEN [r EXCEPT !.Population = AddNum(r.Population, split)]
            ELSE r)

RECURSIVE GiveToAll(_, _, _, _)
GiveToAll(df, codes, year, split) ==
    IF codes = <<>> THEN df
    ELSE GiveToAll(GiveTo(df, Head(codes), year, split), Tail(codes), year, split)

RECURSIVE RedistributeYears(_, _, _)
RedistributeYears(df, valid, years) ==
    IF years = <<>> THEN df
    ELSE LET year == Head(years)
             haaren_population ==
                 SelectSeq(valid, LAMBDA r : r.Year = year)[1].Population
         IN  RedistributeYears(
                 GiveToAll(df, receiving_codes, year, SplitPopulation(haaren_population)),
                 valid, Tail(years))

\* a loop over every year of the table, giving 0 where Haaren has no population
RECURSIVE RedistributeAllYears(_, _, _)
RedistributeAllYears(df, valid, years) ==
    IF years = <<>> THEN df
    ELSE LET year == Head(years)
             rows == SelectSeq(valid, LAMBDA r : r.Year = year)
             split_population ==
                 IF rows = <<>> THEN 0 ELSE SplitPopulation(rows[1].Population)
         IN  RedistributeAllYears(
                 GiveToAll(df, receiving_codes, year, split_population),
                 valid, Tail(years))

RedistributeEveryYear(df) ==
    RedistributeAllYears(df, HaarenValidRows(df),
                         Unique(MapSeq(df, LAMBDA r : r.Year)))

Redistribute(df) == RedistributeYears(df, HaarenValidRows(df), HaarenYears(df))

DropHaaren(df) == SelectSeq(df, LAMBDA r : r.Municipality_code # haaren_code)

\* the redistribution step (lines 175-206): the loop, then the removal of Haaren
RedistributionStep(df) == DropHaaren(Redistribute(df))

PopulationKeys == <<"Municipality_code", "Year">>

\* the table returned without the final aggregation
FinalAggregationSkipped(df) == df

FinalAggregation(df) == GroupBySum(df, PopulationKeys, {"Population"})

\* the table before the redistribution loop (lines 125-164)
PopulationBeforeSplit(df) == ReplaceOutdated(RenameAndConvert(KeepMunicipalities(df)))

\* the statements of clean_population_df on the objects of the call; the
\* loop writes to the table the name is bound to (or binds a concatenation)
CleanPopulationCall(df) ==
    LET s0 == StartCall(<<"df">>, <<df>>)
        s1 == Copy(s0, "df", "df")
        s2 == Bind(s1, "df", KeepMunicipalities(TableOf(s1, "df")))
        s3 == Bind(s2, "df", RenameAndConvert(TableOf(s2, "df")))
        s4 == WriteInPlace(s3, "df", ReplaceOutdated(TableOf(s3, "df")))
        s5 == WriteInPlace(s4, "df", Redistribute(TableOf(s4, "df")))
        s6 == Bind(s5, "df", DropHaaren(TableOf(s5, "df")))
    IN  Bind(s6, "df", FinalAggregation(TableOf(s6, "df")))

clean_population_df(df) == TableOf(CleanPopulationCall(df), "df")

----------------------------------------------------------------------------
(* Raw population table *)

MaxPopulationRows == 3

PopulationRow(c, y, p) == [RegioS |-> c, Perioden |-> y, TotaleBevolking_1 |-> p]

\* the dissolved municipality, one successor, a merged municipality and its
\* successor, and a province row; two years; two populations and an empty cell
PopulationRowDomain ==
    {PopulationRow(c, y, p) :
        c \in {"GM0788", "GM0824", "GM0501", "GM1992", "PV27"},
        y \in {"2020JJ00", "2021JJ00"},
        p \in {"4000", "6", "."}}

LoadPopulationRow(D, n) ==
    /\ pc = "load_population"
    /\ Len(raw_population) < n
    /\ \E r \in D : raw_population' = Append(raw_population, r)
    /\ UNCHANGED <<pc, raw_cases, raw_hospital, boundaries, df_cases,
                   df_hospital, df_population, df_covid, df_final,
                   gdf_mun, gdf_prov, gdf_nl,
                   df_typed, schema_call, dashboard, aliased>>

\* astype(int) on the extracted years (line 140) raises ValueError when a
\* municipality row has a period string without four digits in a row
YearCastRaises(df) ==
    \E r \in Range(KeepMunicipalities(df)) : ExtractYear(r.Perioden) = NaN

CleanPopulation ==
    /\ pc = "load_population"
    /\ IF YearCastRaises(raw_population)
       THEN /\ pc' = "population_raised"
            /\ raw_population' = raw_population
            /\ df_population' = df_population
            /\ aliased' = aliased
       ELSE LET call == CleanPopulationCall(raw_population)
            IN  /\ df_population' = TableOf(call, "df")
                /\ raw_population' = CallerTable(call, 1)
                /\ aliased' = ParametersSharing(call, <<"df">>, "df")
                /\ pc' = "population_cleaned"
    /\ UNCHANGED <<raw_cases, raw_hospital, boundaries,
                   df_cases, df_hospital, df_covid, df_final,
                   gdf_mun, gdf_prov, gdf_nl,
                   df_typed, schema_call, dashboard>>

\* the redistribution step applied once more, to the cleaned table
RedistributeAgain ==
    /\ pc = "population_cleaned"
    /\ df_population' = RedistributionStep(df_population)
    /\ pc' = "redistributed_again"
    /\ UNCHANGED <<raw_cases, raw_hospital, raw_population, boundaries,
                   df_cases, df_hospital, df_covid, df_final,
                   gdf_mun, gdf_prov, gdf_nl,
                   df_typed, schema_call, dashboard, aliased>>

InitPopulation == pc = "load_population" /\ InitEmpty

NextPopulation ==
    \/ LoadPopulationRow(PopulationRowDomain, MaxPopulationRows)
    \/ CleanPopulation
    \/ RedistributeAgain

SpecPopulation == InitPopulation /\ [][NextPopulation]_vars

MaxMalformedRows == 3

\* a municipality and a province row; a period string with and one without a
\* year; a population and an unparseable population cell
MalformedRowDomain ==
    {PopulationRow(c, y, p) :
        c \in {"GM0824", "GM0501", "PV27"},
        y \in {"2020JJ00", "JJ00"},
        p \in {"4000", "."}}

NextMalformed ==
    \/ LoadPopulationRow(MalformedRowDomain, MaxMalformedRows)
    \/ CleanPopulation

SpecMalformed == InitPopulation /\ [][NextMalformed]_vars

----------------------------------------------------------------------------
(* Properties of clean_population_df *)

PopulationYears == {2020, 2021}

\* the rows of table df with a code in C and year y
PopRowsOf(df, C, y) ==
    SelectSeq(df, LAMBDA r : r.Municipality_code \in C /\ r.Year = y)

ObsoleteCodes == DOMAIN fused_municipality_map \cup old_codes

\* C3: the cleaned population table holds no key of a remap table and no row
\* of the dissolved municipality GM0788.
C3_NoObsoleteCode ==
    pc = "population_cleaned" =>
        \A r \in Range(df_population) :
            r.Municipality_code \notin ObsoleteCodes \cup {haaren_code}

C3_Witness ==
    /\ pc = "population_cleaned"
    /\ \E r \in Range(raw_population) : r.RegioS \in ObsoleteCodes
    /\ \E r \in Range(raw_population) :
           r.RegioS = haaren_code /\ ToNumeric(r.TotaleBevolking_1) # NaN
    /\ \E r \in Range(df_population) : r.Municipality_code = new_code
    /\ \E r \in Range(df_population) : r.Municipality_code \in Range(receiving_codes)

\* C4: for every year in which GM0788 reports a population, the four
\* successors gain exactly that population in the cleaned table, and the
\* population summed over all municipalities of that year is the same before
\* the redistribution and in the cleaned table.
C4_RedistributionConservation ==
    pc = "population_cleaned" =>
        LET before == PopulationBeforeSplit(raw_population)
        IN  \A y \in PopulationYears :
                PopRowsOf(HaarenValidRows(before), {haaren_code}, y) # <<>> =>
                    /\ SumCol(PopRowsOf(df_population, Range(receiving_codes), y), "Population")
                         - SumCol(PopRowsOf(before, Range(receiving_codes), y), "Population")
                       = SumCol(PopRowsOf(before, {haaren_code}, y), "Population")
                    /\ SumCol(PopRowsOf(df_population, GMPrefixed, y), "Population")
                       = SumCol(PopRowsOf(before, GMPrefixed, y), "Population")

\* C5: when the only GM0788 row is (GM0788, 2020, 4000) and no successor has a
\* 2020 row, the cleaned table has one 2020 row per successor, each with
\* population 1000, and no GM0788 row.
C5_HaarenScenario ==
    (/\ pc = "population_cleaned"
     /\ \A r \in Range(raw_population) :
            r.RegioS = haaren_code =>
                r.Perioden = "2020JJ00" /\ r.TotaleBevolking_1 = "4000"
     /\ Cardinality({i \in 1..Len(raw_population) :
            raw_population[i].RegioS = haaren_code}) = 1
     /\ \A r \in Range(raw_population) :
            ~(r.RegioS \in Range(receiving_codes) /\ r.Perioden = "2020JJ00"))
    => /\ \A i \in 1..Len(receiving_codes) :
            PopRowsOf(df_population, {receiving_codes[i]}, 2020)
                = <<[Municipality_code |-> receiving_codes[i], Year |-> 2020,
                     Population |-> Persons(1000)]>>
       /\ \A r \in Range(df_population) : r.Municipality_code # haaren_code

C5_Witness ==
    /\ pc = "population_cleaned"
    /\ Len(raw_population) = 3
    /\ raw_population[2] = PopulationRow(haaren_code, "2020JJ00", "4000")
    /\ raw_population[1].RegioS = "GM0824" /\ raw_population[1].Perioden = "2021JJ00"
    /\ raw_population[3].RegioS = "GM1992"
    /\ Len(PopRowsOf(df_population, Range(receiving_codes), 2020)) = 4

\* C6: the cleaned population table has at most one row per
\* (Municipality_code, Year).
C6_UniquePopulationKey ==
    pc = "population_cleaned" =>
        \A i, j \in 1..Len(df_population) :
            KeyOf(df_population[i], PopulationKeys) = KeyOf(df_population[j], PopulationKeys)
                => i = j

\* remapping (GM0501 next to GM1992) and redistribution (GM0824 with two rows)
\* both produce duplicate keys before the final aggregation
C6_Witness ==
    /\ pc = "population_cleaned"
    /\ \E i, j \in 1..Len(raw_population) :
           /\ raw_population[i].RegioS = "GM0501" /\ raw_population[j].RegioS = "GM1992"
           /\ raw_population[i].Perioden = raw_population[j].Perioden
    /\ Len(df_population) < Len(KeepMunicipalities(raw_population))

RawHaarenRows == SelectSeq(raw_population, LAMBDA r : r.RegioS = "GM0788")

\* C13: GM0788 is not a key of fused_municipality_map: the remap leaves every
\* GM0788 row under GM0788, to be redistributed, and no code is both remapped
\* and redistributed.
C13_RemapAndSplitDisjoint ==
    /\ haaren_code \notin DOMAIN fused_municipality_map
    /\ \A c \in GMPrefixed : ~(ReplaceFused(c) # c /\ c = haaren_code)
    /\ pc = "population_cleaned" =>
           Len(SelectSeq(PopulationBeforeSplit(raw_population),
                         LAMBDA r : r.Municipality_code = haaren_code))
               = Len(RawHaarenRows)

\* a remapped municipality and the dissolved one in the same raw table
C13_Witness ==
    /\ pc = "population_cleaned"
    /\ \E r \in Range(raw_population) : r.RegioS \in DOMAIN fused_municipality_map
    /\ HaarenValidRows(PopulationBeforeSplit(raw_population)) # <<>>
    /\ \E r \in Range(df_population) : r.Municipality_code = new_code
    /\ \A i \in 1..Len(receiving_codes) :
           \E r \in Range(df_population) : r.Municipality_code = receiving_codes[i]

\* C14: the redistribution step applied to a table without GM0788 (the cleaned
\* table, or a table before the split that has no GM0788 row) returns the
\* table as it is: no population changes, no row is added or removed.
C14_RedistributionNoOpWithoutHaaren ==
    /\ [][pc = "population_cleaned" /\ pc' = "redistributed_again"
              => df_population' = df_population]_vars
    /\ [](pc = "population_cleaned" =>
              LET before == PopulationBeforeSplit(raw_population)
              IN  (\A r \in Range(before) : r.Municipality_code # haaren_code)
                      => RedistributionStep(before) = before)

\* the step was applied a second time to a table whose successors had
\* received a share in the first application
C14_Witness ==
    /\ pc = "redistributed_again"
    /\ HaarenValidRows(PopulationBeforeSplit(raw_population)) # <<>>
    /\ \E r \in Range(raw_population) : r.RegioS = "GM0824"
    /\ \A i \in 1..Len(receiving_codes) :
           \E r \in Range(df_population) : r.Municipality_code = receiving_codes[i]

\* C15: when no GM0788 row of the raw table has a population that parses, no
\* successor row is created or increased (each successor and year has a row
\* exactly when it had one, with the population its rows had), and the
\* cleaned table has no GM0788 row.
C15_NoValidHaarenNoRedistribution ==
    (/\ pc = "population_cleaned"
     /\ \A r \in Range(RawHaarenRows) : ToNumeric(r.TotaleBevolking_1) = NaN)
    => LET before == PopulationBeforeSplit(raw_population)
       IN  /\ \A i \in 1..Len(receiving_codes) : \A y \in PopulationYears :
                  LET had == PopRowsOf(before, {receiving_codes[i]}, y)
                      has == PopRowsOf(df_population, {receiving_codes[i]}, y)
                  IN  /\ had = <<>> => has = <<>>
                      /\ had # <<>> =>
                             /\ Len(has) = 1
                             /\ has[1].Population = SumCol(had, "Population")
           /\ \A r \in Range(df_population) : r.Municipality_code # haaren_code

\* Haaren without population next to a successor with a population
C15_Witness ==
    /\ pc = "population_cleaned"
    /\ RawHaarenRows # <<>>
    /\ \A r \in Range(RawHaarenRows) : ToNumeric(r.TotaleBevolking_1) = NaN
    /\ \E r \in Range(raw_population) :
           r.RegioS = "GM0824" /\ r.Perioden = RawHaarenRows[1].Perioden
    /\ \E r \in Range(df_population) :
           r.Municipality_code = "GM0824" /\ r.Population = Persons(6)

\* C16: for every year and population P of a GM0788 row with a population,
\* and every successor S: without a row of S for the year the cleaned table
\* has the row (S, year, P/4); with population Q of S for the year it has the
\* row (S, year, Q + P/4).
C16_SuccessorShare ==
    pc = "population_cleaned" =>
        LET before == PopulationBeforeSplit(raw_population)
        IN  \A h \in Range(HaarenValidRows(before)) :
            \A i \in 1..Len(receiving_codes) :
                LET S   == receiving_codes[i]
                    had == PopRowsOf(before, {S}, h.Year)
                    has == PopRowsOf(df_population, {S}, h.Year)
                IN  /\ had = <<>> =>
                           has = <<[Municipality_code |-> S, Year |-> h.Year,
                                    Population |-> h.Population \div Quarter]>>
                    /\ (had # <<>> /\ \A r \in Range(had) : r.Population # NaN) =>
                           has = <<[Municipality_code |-> S, Year |-> h.Year,
                                    Population |-> SumCol(had, "Population")
                                                   + h.Population \div Quarter]>>

----------------------------------------------------------------------------
(* clean_hospital_df *)

ParseHospitalDates(df) ==
    MapSeq(df, LAMBDA r :
        [Date |-> ToDatetime(r.Date_of_statistics),
         Municipality_code |-> r.Municipality_code,
         Municipality_name |-> r.Municipality_name,
         Hospital_admission |-> r.Hospital_admission])

HospitalKeys == <<"Date", "Municipality_code", "Municipality_name">>

\* the statements of clean_hospital_df on the objects of the call
CleanHospitalCall(df) ==
    LET s0 == StartCall(<<"df">>, <<df>>)
        s1 == Copy(s0, "df", "df")
        s2 == WriteInPlace(s1, "df", ParseHospitalDates(TableOf(s1, "df")))
        s3 == Bind(s2, "df", DropMissingMunicipality(TableOf(s2, "df")))
        s4 == Bind(s3, "df", GroupBySum(TableOf(s3, "df"), HospitalKeys,
                                        {"Hospital_admission"}))
    IN  WriteInPlace(s4, "df", AddYearMonth(TableOf(s4, "df")))

clean_hospital_df(df) == TableOf(CleanHospitalCall(df), "df")

----------------------------------------------------------------------------
(* combine_cases_and_hospital_data *)

\* df[[columns]]
Project(df, cols) == MapSeq(df, LAMBDA r : [c \in cols |-> r[c]])

NAOf(col) ==
    IF col \in NumCols THEN NaN ELSE IF col \in RateCols THEN NaNRate ELSE NA

\* one merged row: the key columns, then the other columns of each side; a
\* side without a row (none = TRUE) contributes missing values
JoinRow(l, r, keys, lcols, rcols, lnone, rnone) ==
    [c \in Range(keys) \cup lcols \cup rcols |->
        IF c \in Range(keys) THEN (IF lnone THEN r[c] ELSE l[c])
        ELSE IF c \in lcols THEN (IF lnone THEN NAOf(c) ELSE l[c])
        ELSE (IF rnone THEN NAOf(c) ELSE r[c])]

\* the rows of pd.merge for one key, left rows outermost
JoinKeyRows(left, right, keys, lcols, rcols, k) ==
    LET ls == SelectSeq(left, LAMBDA x : KeyOf(x, keys) = k)
        rs == SelectSeq(right, LAMBDA x : KeyOf(x, keys) = k)
    IN  IF rs = <<>>
        THEN MapSeq(ls, LAMBDA l : JoinRow(l, l, keys, lcols, rcols, FALSE, TRUE))
        ELSE IF ls = <<>>
        THEN MapSeq(rs, LAMBDA r : JoinRow(r, r, keys, lcols, rcols, TRUE, FALSE))
        ELSE Flatten(MapSeq(ls, LAMBDA l :
                MapSeq(rs, LAMBDA r : JoinRow(l, r, keys, lcols, rcols, FALSE, FALSE))))

\* pd.merge(left, right, how="outer", on=keys): every key of either side, in key order
MergeOuter(left, right, keys, lcols, rcols) ==
    LET ks == SortKeys(GroupKeysAll(left, keys) \cup GroupKeysAll(right, keys), keys)
    IN  Flatten([i \in 1..Len(ks) |-> JoinKeyRows(left, right, keys, lcols, rcols, ks[i])])

\* pd.merge(left, right, how="left", on=keys): the left rows in their order
MergeLeft(left, right, keys, lcols, rcols) ==
    Flatten(MapSeq(left, LAMBDA l :
        LET rs == SelectSeq(right, LAMBDA x : KeyOf(x, keys) = KeyOf(l, keys))
        IN  IF rs = <<>>
            THEN <<JoinRow(l, l, keys, lcols, rcols, FALSE, TRUE)>>
            ELSE MapSeq(rs, LAMBDA r : JoinRow(l, r, keys, lcols, rcols, FALSE, FALSE))))

RowHasNA(r) == \E c \in DOMAIN r : IsNA(c, r[c])

\* the outer join returned as it is
DropNASkipped(df) == df

\* DataFrame.dropna(): rows with any missing value are removed
DropNA(df) == SelectSeq(df, LAMBDA r : ~RowHasNA(r))

CombineKeys == <<"Date", "Municipality_code">>

HospitalSide == {"Municipality_name", "Hospital_admission"}

CaseSide == {"Province", "Total_reported", "Deceased", "Year", "Month"}

\* the statements of combine_cases_and_hospital_data on the objects of the call
CombineCall(cases, hospital) ==
    LET s0 == StartCall(<<"df_cases", "df_hospital">>, <<cases, hospital>>)
        s1 == Bind(s0, "df_covid",
                   MergeOuter(Project(TableOf(s0, "df_hospital"),
                                      Range(CombineKeys) \cup HospitalSide),
                              Project(TableOf(s0, "df_cases"),
                                      Range(CombineKeys) \cup CaseSide),
                              CombineKeys, HospitalSide, CaseSide))
    IN  Bind(s1, "df_covid", DropNA(TableOf(s1, "df_covid")))

combine_cases_and_hospital_data(cases, hospital) ==
    TableOf(CombineCall(cases, hospital), "df_covid")

----------------------------------------------------------------------------
(* add_population_and_calculate_incidence *)

RECURSIVE GCD(_, _)
GCD(a, b) == IF b = 0 THEN a ELSE GCD(b, a % b)

Fraction(n, d) == <<n \div GCD(n, d), d \div GCD(n, d)>>

\* float division a / b of two non-negative numbers: x / 0 is inf, 0 / 0 and
\* any division with a missing operand is NaN
DivNum(a, b) ==
    IF a = NaN \/ b = NaN THEN NaNRate
    ELSE IF b = 0 THEN (IF a = 0 THEN NaNRate ELSE InfRate)
    ELSE Fraction(a, b)

TimesNum(f, k) == IF f[2] = 0 THEN f ELSE Fraction(f[1] * k, f[2])

Per100k == 100000

\* a count (in persons) as a number of the unit of the Population column
CountOf(n) == IF n = NaN THEN NaN ELSE Persons(n)

\* a rate per 1,000 inhabitants
IncidencePerThousand(metric, population) ==
    TimesNum(DivNum(CountOf(metric), population), 1000)

\* metric / population * 100_000
IncidenceRate(metric, population) ==
    TimesNum(DivNum(CountOf(metric), population), Per100k)

PopulationJoinKeys == <<"Municipality_code", "Year">>

CovidColumns == {"Date", "Month", "Municipality_name", "Province",
                 "Hospital_admission", "Total_reported", "Deceased"}

\* the merge with how="inner": covid rows without a population record are lost
PopulationJoinInner(df_c, df_p) ==
    SelectSeq(MergeLeft(df_c, df_p, PopulationJoinKeys, CovidColumns, {"Population"}),
              LAMBDA r : \E p \in Range(df_p) :
                  KeyOf(p, PopulationJoinKeys) = KeyOf(r, PopulationJoinKeys))

PopulationJoin(df_c, df_p) ==
    MergeLeft(df_c, df_p, PopulationJoinKeys, CovidColumns, {"Population"})

WithRates(r) ==
    [c \in DOMAIN r \cup {"Incidence_rate_cases", "Incidence_rate_deaths",
                          "Incidence_rate_hospital_admission"} |->
        CASE c = "Incidence_rate_cases" -> IncidenceRate(r.Total_reported, r.Population)
          [] c = "Incidence_rate_deaths" -> IncidenceRate(r.Deceased, r.Population)
          [] c = "Incidence_rate_hospital_admission" ->
                 IncidenceRate(r.Hospital_admission, r.Population)
          [] OTHER -> r[c]]

\* df.columns after the outer merge of combine_cases_and_hospital_data: the
\* key columns, the other hospital columns, then the other case columns
CombinedColumns ==
    <<"Date", "Municipality_code", "Municipality_name", "Hospital_admission",
      "Province", "Total_reported", "Deceased", "Year", "Month">>

\* df.columns after the left merge with the population and the three
\* assignments of the rates
ColumnsWithRates ==
    CombinedColumns \o <<"Population", "Incidence_rate_cases",
                         "Incidence_rate_deaths", "Incidence_rate_hospital_admission">>

\* the list of the reorder df[[...]]
ColumnOrder ==
    <<"Date", "Month", "Year", "Municipality_code", "Municipality_name",
      "Province", "Population", "Hospital_admission", "Total_reported",
      "Deceased", "Incidence_rate_hospital_admission", "Incidence_rate_cases",
      "Incidence_rate_deaths">>

\* df.columns of the table add_population_and_calculate_incidence returns
FinalColumnOrder == SelectSeq(ColumnOrder, LAMBDA c : c \in Range(ColumnsWithRates))

\* the statements of add_population_and_calculate_incidence on the objects
\* of the call
AddPopulationCall(df_c, df_p) ==
    LET s0 == StartCall(<<"df_covid", "df_population">>, <<df_c, df_p>>)
        s1 == Bind(s0, "df", PopulationJoin(TableOf(s0, "df_covid"),
                                            TableOf(s0, "df_population")))
        s2 == WriteInPlace(s1, "df", MapSeq(TableOf(s1, "df"), WithRates))
    IN  Bind(s2, "df", Project(TableOf(s2, "df"), Range(ColumnOrder)))

add_population_and_calculate_incidence(df_c, df_p) ==
    TableOf(AddPopulationCall(df_c, df_p), "df")

----------------------------------------------------------------------------
(* cast_column_types *)

\* Series.fillna(0).astype(int) on a count: a missing count becomes 0
FillZeroInt(v) == IF v = NaN THEN 0 ELSE v

\* Series.fillna(0).astype(int) on a population: a missing population becomes
\* 0, a fraction of a person is cut off
FillZeroIntPersons(p) == IF p = NaN THEN 0 ELSE Persons(p \div Quarter)

\* the assignments df[col] = ...: Year is cast to int, a Month that is a
\* period already is left alone, the counts are filled and cast
CastColumns(df) ==
    MapSeq(df, LAMBDA r :
        [c \in DOMAIN r |->
            IF c \in {"Total_reported", "Deceased", "Hospital_admission"}
            THEN FillZeroInt(r[c])
            ELSE IF c = "Population" THEN FillZeroIntPersons(r[c])
            ELSE r[c]])

\* the statements of cast_column_types on the objects of the call
CastColumnTypesCall(df) ==
    LET s0 == StartCall(<<"df">>, <<df>>)
        s1 == Copy(s0, "df", "df")
    IN  WriteInPlace(s1, "df", CastColumns(TableOf(s1, "df")))

cast_column_types(df) == TableOf(CastColumnTypesCall(df), "df")

----------------------------------------------------------------------------
(* The pipeline: extracts are loaded, cleaned, joined and given rates *)

MaxJoinRows == 2

HospitalRow(d, c, n, h) ==
    [Date_of_statistics |-> d, Municipality_code |-> c, Municipality_name |-> n,
     Hospital_admission |-> h]

\* Case rows of the pipeline: a legacy municipality and its successor on one
\* date, and Amsterdam on two dates of different years, once without any count.
JoinCaseRows ==
    {CaseRow("2021-01-01", "GM0501", "Brielle", "Zuid-Holland", 10, 1),
     CaseRow("2021-01-01", "GM1992", "Voorne aan Zee", "Zuid-Holland", 20, 2),
     CaseRow("2021-01-01", "GM0363", "Amsterdam", "Noord-Holland", 5, 0),
     CaseRow("2022-02-01", "GM0363", "Amsterdam", "Noord-Holland", 0, 0)}

\* Hospital rows of the pipeline: the same municipalities, Amsterdam once under
\* the name of another municipality and once without admissions.
JoinHospitalRows ==
    {HospitalRow("2021-01-01", "GM0501", "Brielle", 2),
     HospitalRow("2021-01-01", "GM1992", "Voorne aan Zee", 3),
     HospitalRow("2021-01-01", "GM0363", "Rotterdam", 1),
     HospitalRow("2022-02-01", "GM0363", "Amsterdam", 0)}

\* Population rows of the pipeline: 2021 only, so that 2022 has no record
JoinPopulationRows ==
    {PopulationRow("GM0363", "2021JJ00", "4000"),
     PopulationRow("GM0363", "2021JJ00", "."),
     PopulationRow("GM1992", "2021JJ00", "6"),
     PopulationRow("GM0501", "2021JJ00", "0")}

LoadHospitalRow(D, n) ==
    /\ pc = "cases_cleaned"
    /\ Len(raw_hospital) < n
    /\ \E r \in D : raw_hospital' = Append(raw_hospital, r)
    /\ UNCHANGED <<pc, raw_cases, raw_population, boundaries, df_cases,
                   df_hospital, df_population, df_covid, df_final,
                   gdf_mun, gdf_prov, gdf_nl,
                   df_typed, schema_call, dashboard, aliased>>

CleanHospital ==
    /\ pc = "cases_cleaned"
    /\ LET call == CleanHospitalCall(raw_hospital)
       IN  /\ df_hospital' = TableOf(call, "df")
           /\ raw_hospital' = CallerTable(call, 1)
           /\ aliased' = ParametersSharing(call, <<"df">>, "df")
    /\ pc' = "hospital_cleaned"
    /\ UNCHANGED <<raw_cases, raw_population, boundaries,
                   df_cases, df_population, df_covid, df_final,
                   gdf_mun, gdf_prov, gdf_nl,
                   df_typed, schema_call, dashboard>>

Combine ==
    /\ pc = "hospital_cleaned"
    /\ LET call == CombineCall(df_cases, df_hospital)
       IN  /\ df_covid' = TableOf(call, "df_covid")
           /\ df_cases' = CallerTable(call, 1)
           /\ df_hospital' = CallerTable(call, 2)
           /\ aliased' = ParametersSharing(call, <<"df_cases", "df_hospital">>,
                                           "df_covid")
    /\ pc' = "load_population"
    /\ UNCHANGED <<raw_cases, raw_hospital, raw_population, boundaries,
                   df_population, df_final,
                   gdf_mun, gdf_prov, gdf_nl,
                   df_typed, schema_call, dashboard>>

AddPopulation ==
    /\ pc = "population_cleaned"
    /\ LET call == AddPopulationCall(df_covid, df_population)
       IN  /\ df_final' = TableOf(call, "df")
           /\ df_covid' = CallerTable(call, 1)
           /\ df_population' = CallerTable(call, 2)
           /\ aliased' = ParametersSharing(call, <<"df_covid", "df_population">>,
                                           "df")
    /\ pc' = "final"
    /\ UNCHANGED <<raw_cases, raw_hospital, raw_population, boundaries,
                   df_cases, df_hospital,
                   gdf_mun, gdf_prov, gdf_nl,
                   df_typed, schema_call, dashboard>>

Init == pc = "load_cases" /\ InitEmpty

Next ==
    \/ LoadCaseRow(JoinCaseRows, MaxJoinRows)
    \/ CleanCases
    \/ LoadHospitalRow(JoinHospitalRows, MaxJoinRows)
    \/ CleanHospital
    \/ Combine
    \/ LoadPopulationRow(JoinPopulationRows, MaxJoinRows)
    \/ CleanPopulation
    \/ AddPopulation

Spec == Init /\ [][Next]_vars

----------------------------------------------------------------------------
(* Properties of the joiner and of the rates *)

Combined == pc \in {"load_population", "population_cleaned", "final"}

CaseKeySet == GroupKeysAll(df_cases, CombineKeys)

HospitalKeySet == GroupKeysAll(df_hospital, CombineKeys)

\* C7: every combined row has case counts and hospital admissions, and its
\* (Date, Municipality_code) is a key of the cleaned case table and of the
\* cleaned hospital table.
C7_JoinIntersection ==
    Combined =>
        \A r \in Range(df_covid) :
            /\ r.Total_reported # NaN /\ r.Deceased # NaN /\ r.Hospital_admission # NaN
            /\ KeyOf(r, CombineKeys) \in CaseKeySet \cap HospitalKeySet

C7_Witness ==
    /\ Combined
    /\ CaseKeySet \ HospitalKeySet # {}
    /\ HospitalKeySet \ CaseKeySet # {}
    /\ CaseKeySet \cap HospitalKeySet # {}
    /\ Len(df_covid) = 1

\* n / d = metric / population * 100000, with population counted in quarters
IsRateOf(f, metric, population) ==
    f[2] > 0 /\ f[1] * population = metric * Quarter * Per100k * f[2]

\* C8: in every final row with a population above 0, each incidence rate is
\* the row's metric divided by the row's population, times 100000.
C8_RateCorrectness ==
    pc = "final" =>
        \A r \in Range(df_final) :
            r.Population # NaN /\ r.Population > 0 =>
                /\ IsRateOf(r.Incidence_rate_cases, r.Total_reported, r.Population)
                /\ IsRateOf(r.Incidence_rate_deaths, r.Deceased, r.Population)
                /\ IsRateOf(r.Incidence_rate_hospital_admission,
                            r.Hospital_admission, r.Population)

C8_Witness ==
    /\ pc = "final"
    /\ \E r \in Range(df_final) :
           /\ r.Population = Persons(6)
           /\ r.Total_reported = 30 /\ r.Deceased = 3 /\ r.Hospital_admission = 3
           /\ r.Incidence_rate_cases = <<500000, 1>>

\* C9: in every final row whose population is missing or 0, each of the three
\* rates is the missing value: never inf, never 0.
C9_DivisionHazard ==
    pc = "final" =>
        \A r \in Range(df_final) :
            r.Population = NaN \/ r.Population = 0 =>
                /\ r.Incidence_rate_cases = NaNRate
                /\ r.Incidence_rate_deaths = NaNRate
                /\ r.Incidence_rate_hospital_admission = NaNRate

CasesCleaned == pc # "load_cases"

HospitalCleaned == pc \notin {"load_cases", "cases_cleaned"}

\* the parsed dates on which both raw extracts have a row of a legacy code
LegacyDatesOfBoth ==
    {ToDatetime(rc.Date_of_publication) :
        rc \in {x \in Range(raw_cases) :
            /\ x.Municipality_code \in old_codes
            /\ \E rh \in Range(raw_hospital) :
                   /\ rh.Municipality_code \in old_codes
                   /\ rh.Date_of_statistics = x.Date_of_publication}} \ {NaN}

\* C11: no cleaned case row and no cleaned hospital row carries one of the
\* legacy codes GM0501, GM0530, GM0614, and a date on which both raw extracts
\* have a legacy-code row has a GM1992 row in the combined table.
C11_NoLegacyCodeAfterCleaning ==
    /\ CasesCleaned =>
           \A r \in Range(df_cases) : r.Municipality_code \notin old_codes
    /\ HospitalCleaned =>
           \A r \in Range(df_hospital) : r.Municipality_code \notin old_codes
    /\ Combined =>
           \A d \in LegacyDatesOfBoth :
               \E r \in Range(df_covid) : r.Date = d /\ r.Municipality_code = new_code

\* C17: the columns of a final table with rows are, in this order, Date,
\* Year, Month, Municipality_code, Municipality_name, Province, Population,
\* Hospital_admission, Total_reported, Deceased, Incidence_rate_cases,
\* Incidence_rate_deaths, Incidence_rate_hospital_admission.
C17_CanonicalColumnOrder ==
    (pc = "final" /\ df_final # <<>>) =>
        /\ FinalColumnOrder =
               <<"Date", "Year", "Month", "Municipality_code", "Municipality_name",
                 "Province", "Population", "Hospital_admission", "Total_reported",
                 "Deceased", "Incidence_rate_cases", "Incidence_rate_deaths",
                 "Incidence_rate_hospital_admission">>
        /\ \A r \in Range(df_final) : DOMAIN r = Range(FinalColumnOrder)

\* C18: in every combined row, Municipality_name, Province, Year and Month
\* are those of a cleaned case row with the row's (Date, Municipality_code),
\* and Hospital_admission is that of a cleaned hospital row with that key.
C18_CaseSideValuesKept ==
    Combined =>
        \A r \in Range(df_covid) :
            /\ \E c \in Range(df_cases) :
                   /\ KeyOf(c, CombineKeys) = KeyOf(r, CombineKeys)
                   /\ c.Municipality_name = r.Municipality_name
                   /\ c.Province = r.Province
                   /\ c.Year = r.Year /\ c.Month = r.Month
            /\ \E h \in Range(df_hospital) :
                   /\ KeyOf(h, CombineKeys) = KeyOf(r, CombineKeys)
                   /\ h.Hospital_admission = r.Hospital_admission

\* the years for which both raw sources have a row of municipality code c
SharedYears(c) ==
    {ExtractYear(rp.Perioden) :
        rp \in {x \in Range(raw_population) :
            /\ x.RegioS = c
            /\ \E rc \in Range(raw_cases) :
                   /\ rc.Municipality_code = c
                   /\ YearOfDate(ToDatetime(rc.Date_of_publication))
                          = ExtractYear(x.Perioden)}} \ {NaN}

\* C12: each code the case cleaner remaps is remapped by the population
\* builder's table to the same successor, so for a code and year present in
\* both raw sources the cleaned case table and the cleaned population table
\* hold a row under one and the same (Municipality_code, Year).
C12_RemapTablesAgree ==
    /\ \A c \in old_codes :
           c \in DOMAIN fused_municipality_map /\ ReplaceFused(c) = ReplaceCode(c)
    /\ pc = "final" =>
           \A c \in old_codes \cup {new_code} : \A y \in SharedYears(c) :
               /\ \E r \in Range(df_cases) :
                      r.Municipality_code = ReplaceCode(c) /\ r.Year = y
               /\ \E r \in Range(df_population) :
                      r.Municipality_code = ReplaceCode(c) /\ r.Year = y

\* a legacy-code case row found its population through the two remap tables
C12_Witness ==
    /\ pc = "final"
    /\ SharedYears("GM0501") # {}
    /\ \E r \in Range(df_final) :
           r.Municipality_code = new_code /\ r.Population # NaN

----------------------------------------------------------------------------
(* create_municipality_geodata, create_province_geodata, create_national_geodata *)

\* A geometry is the set of the cells it covers; the union of geometries
\* (dissolve, unary_union) is the union of the sets.
RECURSIVE UnionGeometry(_)
UnionGeometry(rows) ==
    IF rows = <<>> THEN {} ELSE Head(rows).geometry \cup UnionGeometry(Tail(rows))

\* df[col] / df["Population"] * 100_000 of the three geo functions
GeoIncidenceRate(metric, population) ==
    TimesNum(DivNum(CountOf(metric), population), Per100k)

\* the loop over (kind, col): the column Incidence_rate_<kind> is set
GeoRateRow(r) ==
    [c \in DOMAIN r \cup {"Incidence_rate_cases", "Incidence_rate_deaths",
                          "Incidence_rate_hospital"} |->
        CASE c = "Incidence_rate_cases" -> GeoIncidenceRate(r.Total_reported, r.Population)
          [] c = "Incidence_rate_deaths" -> GeoIncidenceRate(r.Deceased, r.Population)
          [] c = "Incidence_rate_hospital" ->
                 GeoIncidenceRate(r.Hospital_admission, r.Population)
          [] OTHER -> r[c]]

FinalColumns == {"Date", "Month", "Year", "Municipality_code", "Municipality_name",
                 "Province", "Population", "Hospital_admission", "Total_reported",
                 "Deceased", "Incidence_rate_hospital_admission",
                 "Incidence_rate_cases", "Incidence_rate_deaths"}

\* the boundary table is the left side; its Municipality_name (suffix _x) is
\* dropped and the name of the data (suffix _y) is kept
\* the statements of create_municipality_geodata on the objects of the call;
\* the drop and the rename in place write to the merged table
MunicipalityGeodataCall(df, gdf_geo) ==
    LET s0 == StartCall(<<"df", "gdf_geo">>, <<df, gdf_geo>>)
        s1 == Copy(s0, "df_mun", "df")
        s2 == WriteInPlace(s1, "df_mun", MapSeq(TableOf(s1, "df_mun"), GeoRateRow))
    IN  Bind(s2, "gdf",
             MergeLeft(Project(TableOf(s2, "gdf_geo"),
                               {"Municipality_code", "geometry"}),
                       TableOf(s2, "df_mun"),
                       <<"Municipality_code">>, {"geometry"},
                       (FinalColumns \cup {"Incidence_rate_hospital"})
                           \ {"Municipality_code"}))

create_municipality_geodata(df, gdf_geo) ==
    TableOf(MunicipalityGeodataCall(df, gdf_geo), "gdf")

GeoMetrics == {"Total_reported", "Deceased", "Hospital_admission", "Population"}

ProvinceKeys == <<"Date", "Year", "Month", "Province">>

NationalKeys == <<"Date", "Year", "Month">>

\* the statistics of the rows without any missing value only
ProvinceStatsOfComplete(gdf) == GroupBySum(DropNA(gdf), ProvinceKeys, GeoMetrics)

ProvinceStats(gdf) == GroupBySum(gdf, ProvinceKeys, GeoMetrics)

\* gdf_mun[["Province", "geometry"]].dropna().dissolve(by="Province")
ProvinceShapes(gdf) ==
    LET known == SelectSeq(gdf, LAMBDA r : r.Province # NA)
        ps    == SortKeys(GroupKeysAll(known, <<"Province">>), <<"Province">>)
    IN  [i \in 1..Len(ps) |->
            [Province |-> ps[i][1],
             geometry |-> UnionGeometry(
                 SelectSeq(known, LAMBDA r : r.Province = ps[i][1]))]]

\* the statements of create_province_geodata on the objects of the call
ProvinceGeodataCall(gdf) ==
    LET s0 == StartCall(<<"gdf_mun">>, <<gdf>>)
        s1 == Bind(s0, "df_prov", ProvinceStats(TableOf(s0, "gdf_mun")))
        s2 == WriteInPlace(s1, "df_prov", MapSeq(TableOf(s1, "df_prov"), GeoRateRow))
        s3 == Bind(s2, "gdf_prov_shapes", ProvinceShapes(TableOf(s2, "gdf_mun")))
    IN  Bind(s3, "gdf_prov",
             MergeLeft(TableOf(s3, "gdf_prov_shapes"), TableOf(s3, "df_prov"),
                       <<"Province">>, {"geometry"},
                       {"Date", "Year", "Month"} \cup GeoMetrics
                           \cup {"Incidence_rate_cases", "Incidence_rate_deaths",
                                 "Incidence_rate_hospital"}))

\* the province rows carry the rates of their first member municipality
create_province_geodata_inheriting(gdf) ==
    MergeLeft(ProvinceShapes(gdf),
              MapSeq(ProvinceStats(gdf), LAMBDA s :
                  LET first == SelectSeq(gdf, LAMBDA m :
                                   m.Date = s.Date /\ m.Province = s.Province)[1]
                  IN  [c \in DOMAIN s \cup {"Incidence_rate_cases",
                                            "Incidence_rate_deaths",
                                            "Incidence_rate_hospital"} |->
                          IF c \in DOMAIN s THEN s[c] ELSE first[c]]),
              <<"Province">>, {"geometry"},
              {"Date", "Year", "Month"} \cup GeoMetrics
                  \cup {"Incidence_rate_cases", "Incidence_rate_deaths",
                        "Incidence_rate_hospital"})

create_province_geodata(gdf) == TableOf(ProvinceGeodataCall(gdf), "gdf_prov")

NationalStats(gdf) == GroupBySum(gdf, NationalKeys, GeoMetrics)

\* the statements of create_national_geodata on the objects of the call
NationalGeodataCall(gdf) ==
    LET s0 == StartCall(<<"gdf_mun">>, <<gdf>>)
        s1 == Bind(s0, "df_nl", NationalStats(TableOf(s0, "gdf_mun")))
        s2 == WriteInPlace(s1, "df_nl", MapSeq(TableOf(s1, "df_nl"), GeoRateRow))
    IN  Bind(s2, "gdf_nl",
             MapSeq(TableOf(s2, "df_nl"), LAMBDA r :
                 [c \in DOMAIN r \cup {"geometry"} |->
                     IF c = "geometry" THEN UnionGeometry(TableOf(s2, "gdf_mun"))
                     ELSE r[c]]))

create_national_geodata(gdf) == TableOf(NationalGeodataCall(gdf), "gdf_nl")

----------------------------------------------------------------------------
(* The geo aggregation of a final table *)

MaxGeoRows == 3

MaxBoundaryRows == 3

\* Amsterdam (Noord-Holland), Rotterdam and Brielle, now Voorne aan Zee
\* (Zuid-Holland), on one date, and Rotterdam on a second date
GeoCaseRows ==
    {CaseRow("2021-01-01", "GM0363", "Amsterdam", "Noord-Holland", 5, 0),
     CaseRow("2021-01-01", "GM0599", "Rotterdam", "Zuid-Holland", 7, 1),
     CaseRow("2021-01-01", "GM0501", "Brielle", "Zuid-Holland", 10, 1),
     CaseRow("2021-01-02", "GM0599", "Rotterdam", "Zuid-Holland", 3, 0)}

GeoHospital ==
    <<HospitalRow("2021-01-01", "GM0363", "Amsterdam", 1),
      HospitalRow("2021-01-01", "GM0599", "Rotterdam", 2),
      HospitalRow("2021-01-01", "GM1992", "Voorne aan Zee", 3),
      HospitalRow("2021-01-02", "GM0599", "Rotterdam", 0)>>

\* Rotterdam has no population record
GeoPopulation ==
    <<PopulationRow("GM0363", "2021JJ00", "4000"),
      PopulationRow("GM1992", "2021JJ00", "6")>>

\* the final tables the pipeline produces from these extracts
GeoFinals ==
    {add_population_and_calculate_incidence(
         combine_cases_and_hospital_data(clean_cases_df(c),
                                         clean_hospital_df(GeoHospital)),
         clean_population_df(GeoPopulation)) :
     c \in SeqsUpTo(GeoCaseRows, MaxGeoRows)}

BoundaryRow(c, n, g) == [Municipality_code |-> c, Municipality_name |-> n, geometry |-> g]

\* the boundaries of Amsterdam, Rotterdam, Voorne aan Zee and of Tilburg, a
\* municipality without data
BoundaryRowDomain ==
    {BoundaryRow("GM0363", "Amsterdam", {1}),
     BoundaryRow("GM0599", "Rotterdam", {2}),
     BoundaryRow("GM1992", "Voorne aan Zee", {3}),
     BoundaryRow("GM0855", "Tilburg", {4})}

LoadBoundaryRow(D, n) ==
    /\ pc = "load_boundaries"
    /\ Len(boundaries) < n
    /\ \E r \in D : boundaries' = Append(boundaries, r)
    /\ UNCHANGED <<pc, raw_cases, raw_hospital, raw_population, df_cases,
                   df_hospital, df_population, df_covid, df_final,
                   gdf_mun, gdf_prov, gdf_nl,
                   df_typed, schema_call, dashboard, aliased>>

CreateMunicipalityGeodata ==
    /\ pc = "load_boundaries"
    /\ LET call == MunicipalityGeodataCall(df_final, boundaries)
       IN  /\ gdf_mun' = TableOf(call, "gdf")
           /\ df_final' = CallerTable(call, 1)
           /\ boundaries' = CallerTable(call, 2)
           /\ aliased' = ParametersSharing(call, <<"df", "gdf_geo">>, "gdf")
    /\ pc' = "municipality_geo"
    /\ UNCHANGED <<raw_cases, raw_hospital, raw_population, df_cases,
                   df_hospital, df_population, df_covid,
                   gdf_prov, gdf_nl,
                   df_typed, schema_call, dashboard>>

CreateProvinceGeodata ==
    /\ pc = "municipality_geo"
    /\ gdf_prov' = create_province_geodata(gdf_mun)
    /\ LET call == ProvinceGeodataCall(gdf_mun)
       IN  /\ gdf_mun' = CallerTable(call, 1)
           /\ aliased' = ParametersSharing(call, <<"gdf_mun">>, "gdf_prov")
    /\ pc' = "province_geo"
    /\ UNCHANGED <<raw_cases, raw_hospital, raw_population, boundaries, df_cases,
                   df_hospital, df_population, df_covid, df_final,
                   gdf_nl,
                   df_typed, schema_call, dashboard>>

CreateNationalGeodata ==
    /\ pc = "province_geo"
    /\ LET call == NationalGeodataCall(gdf_mun)
       IN  /\ gdf_nl' = TableOf(call, "gdf_nl")
           /\ gdf_mun' = CallerTable(call, 1)
           /\ aliased' = ParametersSharing(call, <<"gdf_mun">>, "gdf_nl")
    /\ pc' = "national_geo"
    /\ UNCHANGED <<raw_cases, raw_hospital, raw_population, boundaries, df_cases,
                   df_hospital, df_population, df_covid, df_final,
                   gdf_prov,
                   df_typed, schema_call, dashboard>>

InitGeo ==
    /\ pc = "load_boundaries"
    /\ raw_cases = <<>> /\ raw_hospital = <<>> /\ raw_population = <<>>
    /\ boundaries = <<>>
    /\ df_cases = <<>> /\ df_hospital = <<>> /\ df_population = <<>>
    /\ df_covid = <<>>
    /\ df_final \in GeoFinals
    /\ gdf_mun = <<>> /\ gdf_prov = <<>> /\ gdf_nl = <<>>
    /\ df_typed = <<>>
    /\ schema_call = NoCall
    /\ dashboard = NoDashboard
    /\ aliased = {}

NextGeo ==
    \/ LoadBoundaryRow(BoundaryRowDomain, MaxBoundaryRows)
    \/ CreateMunicipalityGeodata
    \/ CreateProvinceGeodata
    \/ CreateNationalGeodata

SpecGeo == InitGeo /\ [][NextGeo]_vars

----------------------------------------------------------------------------
(* The whole chain of transforms, from the raw extracts to the national level *)

MaxChainRows == 2

\* the final table is cast; astype(int) raises on a missing Year
CastColumnTypes ==
    /\ pc = "final"
    /\ \A r \in Range(df_final) : r.Year # NaN
    /\ LET call == CastColumnTypesCall(df_final)
       IN  /\ df_typed' = TableOf(call, "df")
           /\ df_final' = CallerTable(call, 1)
           /\ aliased' = ParametersSharing(call, <<"df">>, "df")
    /\ pc' = "load_boundaries"
    /\ UNCHANGED <<raw_cases, raw_hospital, raw_population, boundaries,
                   df_cases, df_hospital, df_population, df_covid,
                   gdf_mun, gdf_prov, gdf_nl, schema_call, dashboard>>

NextChain ==
    \/ LoadCaseRow(JoinCaseRows, MaxChainRows)
    \/ CleanCases
    \/ LoadHospitalRow(JoinHospitalRows, MaxChainRows)
    \/ CleanHospital
    \/ Combine
    \/ LoadPopulationRow(JoinPopulationRows, MaxChainRows)
    \/ CleanPopulation
    \/ AddPopulation
    \/ CastColumnTypes
    \/ LoadBoundaryRow(BoundaryRowDomain, MaxChainRows)
    \/ CreateMunicipalityGeodata
    \/ CreateProvinceGeodata
    \/ CreateNationalGeodata

SpecChain == Init /\ [][NextChain]_vars

----------------------------------------------------------------------------
(* Properties of the geo aggregation *)

GeoDates == {r.Date : r \in Range(gdf_mun)} \ {NaN}

RowsOn(df, d) == SelectSeq(df, LAMBDA r : r.Date = d)

\* C10: for every date, the national row's Total_reported equals the sum of
\* the province rows' Total_reported of that date, which equals the sum of the
\* municipality rows' Total_reported of that date.
C10_LevelConsistency ==
    pc = "national_geo" =>
        \A d \in GeoDates :
            /\ Len(RowsOn(gdf_nl, d)) = 1
            /\ RowsOn(gdf_nl, d)[1].Total_reported
                   = SumCol(RowsOn(gdf_prov, d), "Total_reported")
            /\ SumCol(RowsOn(gdf_prov, d), "Total_reported")
                   = SumCol(RowsOn(gdf_mun, d), "Total_reported")

\* three municipalities of two provinces on one date, a municipality of the
\* data without boundary and a boundary without data (its Province is missing)
C10_Witness ==
    /\ pc = "national_geo"
    /\ \E d \in GeoDates :
           /\ Len(RowsOn(gdf_mun, d)) = 2
           /\ Len(RowsOn(gdf_prov, d)) = 2
           /\ Len(RowsOn(df_final, d)) = 3
    /\ \E r \in Range(gdf_mun) : r.Province = NA /\ r.Date = NaN
    /\ \E r \in Range(df_final) :
           \A b \in Range(boundaries) : b.Municipality_code # r.Municipality_code

MunicipalityGeoCreated == pc \in {"municipality_geo", "province_geo", "national_geo"}

\* the municipality rows that carry data (a boundary without data has no date)
GeoDataRows == {r \in Range(gdf_mun) : r.Date # NaN}

RateColumnsOf(r) == DOMAIN r \cap RateCols

\* row r of the municipality geodata is row f of the final table, and the
\* rates create_municipality_geodata computed for it are the rates of f
SameRowSameRates(r, f) ==
    /\ \A c \in FinalColumns \ RateCols : r[c] = f[c]
    /\ r.Incidence_rate_cases = f.Incidence_rate_cases
    /\ r.Incidence_rate_deaths = f.Incidence_rate_deaths
    /\ r.Incidence_rate_hospital = f.Incidence_rate_hospital_admission

\* C20: every data row of the municipality geodata carries the three rates of
\* the final row with its (Date, Municipality_code), and its rate columns are
\* the rate columns of the final table.
C20_GeoRatesUnderSameColumns ==
    MunicipalityGeoCreated =>
        \A r \in GeoDataRows :
            \E f \in Range(df_final) :
                /\ SameRowSameRates(r, f)
                /\ RateColumnsOf(r) = RateColumnsOf(f)

----------------------------------------------------------------------------
(* A transform called on a table that lacks columns *)

\* the table arguments of the transforms
TableInputs ==
    {"clean_cases_df.df", "clean_hospital_df.df", "clean_population_df.df",
     "combine_cases_and_hospital_data.df_cases",
     "combine_cases_and_hospital_data.df_hospital",
     "add_population_and_calculate_incidence.df_covid",
     "add_population_and_calculate_incidence.df_population",
     "create_municipality_geodata.df", "create_municipality_geodata.gdf_geo",
     "create_province_geodata.gdf_mun", "create_national_geodata.gdf_mun"}

\* the columns of the table documented for the cleaners: the ones their
\* docstrings name, and for the population extract the ones it is renamed from
DocumentedColumnsOfCleaner(input) ==
    CASE input = "clean_cases_df.df" ->
             {"Date_of_publication", "Municipality_code", "Municipality_name",
              "Province", "Total_reported", "Deceased"}
      [] input = "clean_hospital_df.df" ->
             {"Date_of_statistics", "Municipality_code", "Municipality_name",
              "Hospital_admission"}
      [] input = "clean_population_df.df" ->
             {"RegioS", "Perioden", "TotaleBevolking_1"}

\* the columns the docstrings of the joiners give their tables
DocumentedColumnsOfJoiner(input) ==
    CASE input = "combine_cases_and_hospital_data.df_cases" ->
             {"Date", "Municipality_code", "Municipality_name", "Province",
              "Total_reported", "Deceased", "Year", "Month"}
      [] input = "combine_cases_and_hospital_data.df_hospital" ->
             {"Date", "Municipality_code", "Municipality_name",
              "Hospital_admission", "Year", "Month"}
      [] input = "add_population_and_calculate_incidence.df_covid" ->
             {"Date", "Municipality_code", "Year", "Total_reported", "Deceased",
              "Hospital_admission"}
      [] input = "add_population_and_calculate_incidence.df_population" ->
             {"Municipality_code", "Year", "Population"}

\* the columns the docstrings of the geographic aggregators give their tables
DocumentedColumnsOfGeo(input) ==
    CASE input = "create_municipality_geodata.df" ->
             {"Municipality_code", "Municipality_name", "Date", "Year", "Month",
              "Total_reported", "Deceased", "Hospital_admission", "Population"}
      [] input = "create_municipality_geodata.gdf_geo" ->
             {"Province", "Municipality_code", "geometry"}
      [] input = "create_province_geodata.gdf_mun" ->
             {"Province", "Date", "Year", "Month", "Total_reported", "Deceased",
              "Hospital_admission", "Population", "geometry"}
      [] input = "create_national_geodata.gdf_mun" ->
             {"Date", "Year", "Month", "Total_reported", "Deceased",
              "Hospital_admission", "Population", "geometry"}

\* the columns the body of a cleaner looks up by name in its table: a lookup
\* of an absent column raises KeyError (rename passes over absent columns)
AccessedColumnsOfCleaner(input) ==
    CASE input = "clean_cases_df.df" ->
             {"Date_of_publication", "Municipality_code", "Municipality_name",
              "Province", "Total_reported", "Deceased"}
      [] input = "clean_hospital_df.df" ->
             {"Date_of_statistics", "Municipality_code", "Municipality_name",
              "Hospital_admission"}
      [] input = "clean_population_df.df" ->
             {"RegioS", "Perioden", "TotaleBevolking_1"}

\* the columns the body of a joiner looks up by name in its table
AccessedColumnsOfJoiner(input) ==
    CASE input = "combine_cases_and_hospital_data.df_cases" ->
             {"Date", "Municipality_code", "Province", "Total_reported",
              "Deceased", "Year", "Month"}
      [] input = "combine_cases_and_hospital_data.df_hospital" ->
             {"Date", "Municipality_code", "Municipality_name", "Hospital_admission"}
      [] input = "add_population_and_calculate_incidence.df_covid" ->
             {"Date", "Month", "Year", "Municipality_code", "Municipality_name",
              "Province", "Hospital_admission", "Total_reported", "Deceased"}
      [] input = "add_population_and_calculate_incidence.df_population" ->
             {"Municipality_code", "Year", "Population"}

\* the columns the body of a geographic aggregator looks up by name, and the
\* geometry column where it dissolves or unites the shapes (unary_union
\* raises AttributeError without it)
AccessedColumnsOfGeo(input) ==
    CASE input = "create_municipality_geodata.df" ->
             {"Municipality_code", "Total_reported", "Deceased",
              "Hospital_admission", "Population"}
      [] input = "create_municipality_geodata.gdf_geo" ->
             {"Municipality_code"}
      [] input = "create_province_geodata.gdf_mun" ->
             {"Province", "Date", "Year", "Month", "Total_reported", "Deceased",
              "Hospital_admission", "Population", "geometry"}
      [] input = "create_national_geodata.gdf_mun" ->
             {"Date", "Year", "Month", "Total_reported", "Deceased",
              "Hospital_admission", "Population", "geometry"}

Cleaners == {"clean_cases_df.df", "clean_hospital_df.df", "clean_population_df.df"}

Joiners ==
    {"combine_cases_and_hospital_data.df_cases",
     "combine_cases_and_hospital_data.df_hospital",
     "add_population_and_calculate_incidence.df_covid",
     "add_population_and_calculate_incidence.df_population"}

DocumentedColumns(input) ==
    IF input \in Cleaners THEN DocumentedColumnsOfCleaner(input)
    ELSE IF input \in Joiners THEN DocumentedColumnsOfJoiner(input)
    ELSE DocumentedColumnsOfGeo(input)

AccessedColumns(input) ==
    IF input \in Cleaners THEN AccessedColumnsOfCleaner(input)
    ELSE IF input \in Joiners THEN AccessedColumnsOfJoiner(input)
    ELSE AccessedColumnsOfGeo(input)

\* the call raises KeyError when a column it looks up is absent, and returns
\* a table otherwise
OutcomeOfCall(input, columns) ==
    IF AccessedColumns(input) \subseteq columns THEN "returned" ELSE "raised"

MaxMissingColumns == 1

\* a table for one argument of one transform, with some documented columns
\* left out; the other argument, if any, is complete
PrepareTable ==
    /\ pc = "prepare_table"
    /\ \E input \in TableInputs :
       \E missing \in SUBSET DocumentedColumns(input) :
           /\ Cardinality(missing) <= MaxMissingColumns
           /\ schema_call' = [input |-> input,
                              columns |-> DocumentedColumns(input) \ missing,
                              outcome |-> "pending"]
    /\ pc' = "call_transform"
    /\ UNCHANGED <<raw_cases, raw_hospital, raw_population, boundaries,
                   df_cases, df_hospital, df_population, df_covid, df_final,
                   gdf_mun, gdf_prov, gdf_nl, df_typed, dashboard, aliased>>

CallTransform ==
    /\ pc = "call_transform"
    /\ schema_call' =
           [schema_call EXCEPT
               !.outcome = OutcomeOfCall(schema_call.input, schema_call.columns)]
    /\ pc' = "called"
    /\ UNCHANGED <<raw_cases, raw_hospital, raw_population, boundaries,
                   df_cases, df_hospital, df_population, df_covid, df_final,
                   gdf_mun, gdf_prov, gdf_nl, df_typed, dashboard, aliased>>

InitSchema == pc = "prepare_table" /\ InitEmpty

NextSchema == PrepareTable \/ CallTransform

SpecSchema == InitSchema /\ [][NextSchema]_vars

\* the columns the schema requires of a table
RequiredColumns ==
    {"Date_of_publication", "Date_of_statistics", "Date", "Municipality_code",
     "Municipality_name", "Province", "Total_reported", "Deceased",
     "Hospital_admission", "RegioS", "Perioden", "TotaleBevolking_1", "Population"}

\* C22: a transform called on a table that lacks a required column of its
\* input raises an error and returns no table.
C22_SchemaViolationRaises ==
    pc = "called" =>
        ((DocumentedColumns(schema_call.input) \cap RequiredColumns)
             \ schema_call.columns # {}
         => schema_call.outcome = "raised")

\* the raw municipality rows whose period string holds a year
WellFormedRows ==
    {r \in Range(raw_population) :
        StartsWithGM(r.RegioS) /\ ExtractYear(r.Perioden) # NaN}

\* C23: a raw population row whose period string holds no 4-digit year, or
\* whose population cell is unparseable, does not make the cleaner raise, and
\* every other municipality row of the batch is still cleaned into the output.
C23_MalformedRowsDoNotAbort ==
    /\ pc # "population_raised"
    /\ pc = "population_cleaned" =>
           \A r \in WellFormedRows :
               \E o \in Range(df_population) :
                   /\ o.Municipality_code = ReplaceFused(r.RegioS)
                   /\ o.Year = ExtractYear(r.Perioden)

\* C24: every Population of the cleaned population table is a non-negative
\* whole number of persons, also for the four successors after each received
\* a quarter of the dissolved municipality's population.
C24_PopulationWholeNumber ==
    pc = "population_cleaned" =>
        \A r \in Range(df_population) :
            r.Population >= 0 /\ r.Population % Quarter = 0

\* raw case rows of a municipality (code, name and province present) whose
\* date does not parse
UnparseableDateRows ==
    {r \in Range(raw_cases) :
        /\ ToDatetime(r.Date_of_publication) = NaN
        /\ r.Municipality_code # NA /\ r.Municipality_name # NA
        /\ r.Province # NA}

\* C25: a case row with an unparseable date and a municipality code and name
\* is kept by the cleaner: the cleaned table has a row with a null date for
\* its municipality, carrying at least its counts.
C25_NullDateRowRetained ==
    pc = "cases_cleaned" =>
        \A r \in UnparseableDateRows :
            \E o \in Range(df_cases) :
                /\ o.Date = NaN
                /\ o.Municipality_code = ReplaceCode(r.Municipality_code)
                /\ o.Total_reported >= r.Total_reported

\* the raw case rows that have a municipality code and a municipality name
MunicipalCaseRows ==
    SelectSeq(raw_cases, LAMBDA r :
        r.Municipality_code # NA /\ r.Municipality_name # NA)

\* C26: clean_cases_df drops exactly the rows without a municipality code or
\* name: no cleaned row lacks a code or a name, and the cleaned table carries
\* the counts of all the other raw rows and of no dropped row.
C26_OnlySummaryRowsDropped ==
    pc = "cases_cleaned" =>
        /\ \A o \in Range(df_cases) :
               o.Municipality_code # NA /\ o.Municipality_name # NA
        /\ SumCol(df_cases, "Total_reported")
               = SumCol(MunicipalCaseRows, "Total_reported")
        /\ SumCol(df_cases, "Deceased") = SumCol(MunicipalCaseRows, "Deceased")

\* the successor codes of the remap table
SuccessorCodes == {fused_municipality_map[k] : k \in DOMAIN fused_municipality_map}

\* a successor and the obsolete codes the remap table sends to it
CodesMergedInto(c) ==
    {c} \cup {k \in DOMAIN fused_municipality_map : fused_municipality_map[k] = c}

\* the raw populations of year y reported under one of the codes
RawPopulationsOf(codes, y) ==
    MapSeq(SelectSeq(raw_population, LAMBDA r :
               r.RegioS \in codes /\ ExtractYear(r.Perioden) = y),
           LAMBDA r : [Population |-> ToNumeric(r.TotaleBevolking_1)])

CleanPopulationsOf(c, y) ==
    SelectSeq(df_population, LAMBDA r : r.Municipality_code = c /\ r.Year = y)

\* C27: for every successor code of the remap table and every year, the
\* cleaned table carries for the successor the sum of the non-null raw
\* populations reported for that year under the successor itself and under
\* the obsolete codes merged into it.
C27_RemapConservation ==
    pc = "population_cleaned" =>
        \A c \in SuccessorCodes : \A y \in PopulationYears :
            /\ SumCol(CleanPopulationsOf(c, y), "Population")
                   = SumCol(RawPopulationsOf(CodesMergedInto(c), y), "Population")
            /\ Len(CleanPopulationsOf(c, y)) <= 1

\* an obsolete code and its successor both report a population for one year
\* and the cleaned table carries their sum under the successor
C27_Witness ==
    /\ pc = "population_cleaned"
    /\ \E y \in PopulationYears :
           /\ \E r \in Range(raw_population) :
                  /\ r.RegioS = "GM0501" /\ ExtractYear(r.Perioden) = y
                  /\ ToNumeric(r.TotaleBevolking_1) = Persons(4000)
           /\ \E r \in Range(raw_population) :
                  /\ r.RegioS = new_code /\ ExtractYear(r.Perioden) = y
                  /\ ToNumeric(r.TotaleBevolking_1) = Persons(6)
           /\ \E o \in Range(df_population) :
                  /\ o.Municipality_code = new_code /\ o.Year = y
                  /\ o.Population = Persons(4006)

\* the population records of the key of a covid row
PopulationRecordsOf(r) ==
    SelectSeq(df_population, LAMBDA p :
        p.Municipality_code = r.Municipality_code /\ p.Year = r.Year)

\* C28: the population is joined from the left on (Municipality_code, Year):
\* the returned table has the covid rows, each once and in their order, with
\* their own values; Population is the value of the population record of the
\* key when there is one and missing when there is none.
C28_LeftJoinOnCodeAndYear ==
    pc = "final" =>
        /\ Len(df_final) = Len(df_covid)
        /\ \A i \in 1..Len(df_covid) :
               /\ \A c \in DOMAIN df_covid[i] : df_final[i][c] = df_covid[i][c]
               /\ LET recs == PopulationRecordsOf(df_covid[i])
                  IN  /\ Len(recs) <= 1
                      /\ df_final[i].Population =
                             (IF recs = <<>> THEN NaN ELSE recs[1].Population)

\* one covid row with a population record and one without
C28_Witness ==
    /\ pc = "final"
    /\ \E i, j \in 1..Len(df_covid) :
           /\ PopulationRecordsOf(df_covid[i]) # <<>>
           /\ df_final[i].Population = Persons(4000)
           /\ df_final[i].Total_reported = 5
           /\ PopulationRecordsOf(df_covid[j]) = <<>>
           /\ df_final[j].Population = NaN

\* the codes of the remap table and of the raw population table
KnownCodes ==
    DOMAIN fused_municipality_map \cup SuccessorCodes \cup GMPrefixed
        \cup {r.RegioS : r \in Range(raw_population)}

\* C29: the population remap is closed and idempotent: no successor of
\* fused_municipality_map is a key of it, none of the four codes that receive
\* a quarter is a key or the dissolved code, and resolving a code twice gives
\* what resolving it once gives.
C29_RemapClosed ==
    /\ SuccessorCodes \cap DOMAIN fused_municipality_map = {}
    /\ \A c \in Range(receiving_codes) :
           c \notin DOMAIN fused_municipality_map /\ c # haaren_code
    /\ \A c \in KnownCodes : ReplaceFused(ReplaceFused(c)) = ReplaceFused(c)
    /\ pc = "population_cleaned" =>
           \A r \in Range(df_population) :
               ReplaceFused(r.Municipality_code) = r.Municipality_code

\* a raw table with an obsolete code and a valid row of the dissolved
\* municipality has been cleaned: the successor and the four receiving codes
\* are in the cleaned table
C29_Witness ==
    /\ pc = "population_cleaned"
    /\ \E r \in Range(raw_population) :
           r.RegioS \in DOMAIN fused_municipality_map
    /\ \E r \in Range(df_population) :
           r.Municipality_code \in SuccessorCodes
    /\ \A c \in Range(receiving_codes) :
           \E r \in Range(df_population) : r.Municipality_code = c

----------------------------------------------------------------------------
(* The controls of the dashboards: run_dashboard and
   create_interactive_covid_chart *)

GeneralProvinces == {"Netherlands", "All Provinces"}

\* the options of the province dropdown for a table with two provinces
ProvinceOptions == <<"Netherlands", "All Provinces", "Noord-Holland", "Zuid-Holland">>

\* sorted(df_merged[df_merged['Province'] == p]['Municipality_name'].unique())
MunicipalitiesOf(p) ==
    CASE p = "Noord-Holland" -> <<"Amsterdam">>
      [] p = "Zuid-Holland" -> <<"Rotterdam", "Voorne aan Zee">>
      [] OTHER -> <<>>

\* the observers of the value of each control, in the order of registration
ProvinceObservers ==
    <<"update_plot", "update_municipality_options", "update_aggregation_options">>

MunicipalityObservers == <<"update_plot", "update_aggregation_options">>

AggregationObservers == <<"update_plot">>

ChartTypeObservers ==
    <<"update_for_chart_type", "update_plot", "update_aggregation_options">>

\* the observers of chart_type_radio exist in run_dashboard only
ObserversOfChartType(kind) ==
    IF kind = "run_dashboard" THEN ChartTypeObservers ELSE <<>>

\* the widgets as constructed, with the three calls that end the set-up
\* still to run
DashboardBuilt(kind) ==
    [kind |-> kind,
     province |-> "Netherlands",
     municipality |-> "All",
     municipality_options |-> <<"All">>,
     disabled |-> TRUE,
     aggregation |-> "Year",
     aggregation_options |-> <<"Year", "Municipalities", "Months">>,
     chart_type |-> "Counts",
     display |-> "block",
     plot |-> [province |-> "none", municipality |-> "none",
               aggregation |-> "none", chart_type |-> "none"],
     pending |-> <<"update_municipality_options", "update_aggregation_options",
                   "update_plot">>]

\* a selection widget given other options selects the first of them; given
\* the options it has, it keeps its value
ValueAfterOptions(old_options, new_options, value) ==
    IF new_options = old_options THEN value ELSE new_options[1]

\* update_plot: the selections the data is filtered and drawn with
update_plot(d) ==
    [d EXCEPT !.plot = [province |-> d.province,
                        municipality |-> IF d.disabled THEN "All" ELSE d.municipality,
                        aggregation |-> d.aggregation,
                        chart_type |-> d.chart_type],
              !.pending = Tail(d.pending)]

\* update_municipality_options up to the assignment of the options; the
\* observers of the municipality run when the value changes, before the
\* handler goes on to set disabled
update_municipality_options(d) ==
    LET general == d.province \in GeneralProvinces
        options == IF general THEN <<"All">>
                   ELSE <<"All">> \o MunicipalitiesOf(d.province)
        value   == ValueAfterOptions(d.municipality_options, options, d.municipality)
    IN  [d EXCEPT !.municipality_options = options,
                  !.municipality = value,
                  !.pending =
                      (IF value # d.municipality THEN MunicipalityObservers ELSE <<>>)
                      \o <<IF general THEN "disable_municipality"
                           ELSE "enable_municipality">>
                      \o Tail(d.pending)]

\* municipality_dropdown.disabled = False
enable_municipality(d) ==
    [d EXCEPT !.disabled = FALSE, !.pending = Tail(d.pending)]

\* municipality_dropdown.value = 'All'; municipality_dropdown.disabled = True
disable_municipality(d) ==
    [d EXCEPT !.municipality = "All",
              !.disabled = TRUE,
              !.pending =
                  (IF d.municipality # "All" THEN MunicipalityObservers ELSE <<>>)
                  \o Tail(d.pending)]

\* the options update_aggregation_options of run_dashboard assigns
AggregationOptionsOfDashboard(d) ==
    IF d.province = "Netherlands" THEN <<"Year", "Months">>
    ELSE IF d.disabled \/ d.municipality = "All"
         THEN <<"Year", "Months", "Municipalities">>
         ELSE <<"Year", "Months">>

\* the options update_aggregation_options of create_interactive_covid_chart
\* assigns
AggregationOptionsOfChart(d) ==
    IF d.province \in GeneralProvinces THEN <<"Year", "Months">>
    ELSE IF d.disabled \/ d.municipality = "All"
         THEN <<"Year", "Months", "Municipalities">>
         ELSE <<"Year", "Months">>

\* update_aggregation_options: nothing while incidence rates are shown
\* (run_dashboard); else the options are assigned and 'Municipalities' is
\* replaced by 'Year' where only two options are offered
update_aggregation_options(d) ==
    IF d.kind = "run_dashboard" /\ d.chart_type = "Incidence Rates"
    THEN [d EXCEPT !.pending = Tail(d.pending)]
    ELSE LET options == IF d.kind = "run_dashboard"
                        THEN AggregationOptionsOfDashboard(d)
                        ELSE AggregationOptionsOfChart(d)
             reset   == ValueAfterOptions(d.aggregation_options, options, d.aggregation)
             value   == IF reset = "Municipalities" /\ Len(options) = 2
                              /\ ~(d.kind = "run_dashboard" /\ d.province = "Netherlands")
                        THEN "Year" ELSE reset
         IN  [d EXCEPT !.aggregation_options = options,
                       !.aggregation = value,
                       !.pending =
                           (IF value # d.aggregation THEN AggregationObservers ELSE <<>>)
                           \o Tail(d.pending)]

\* update_for_chart_type: the aggregation radio is hidden for incidence
\* rates, shown and brought up to date for counts
update_for_chart_type(d) ==
    IF d.chart_type = "Incidence Rates"
    THEN [d EXCEPT !.display = "none", !.pending = Tail(d.pending)]
    ELSE [d EXCEPT !.display = "block",
                   !.pending = <<"update_aggregation_options">> \o Tail(d.pending)]

\* the next pending call runs
RunObserver ==
    /\ pc = "dashboard"
    /\ dashboard.pending # <<>>
    /\ LET call == Head(dashboard.pending)
       IN  dashboard' =
               CASE call = "update_plot" -> update_plot(dashboard)
                 [] call = "update_municipality_options" ->
                        update_municipality_options(dashboard)
                 [] call = "enable_municipality" -> enable_municipality(dashboard)
                 [] call = "disable_municipality" -> disable_municipality(dashboard)
                 [] call = "update_aggregation_options" ->
                        update_aggregation_options(dashboard)
                 [] call = "update_for_chart_type" -> update_for_chart_type(dashboard)
    /\ UNCHANGED <<pc, raw_cases, raw_hospital, raw_population, boundaries,
                   df_cases, df_hospital, df_population, df_covid, df_final,
                   gdf_mun, gdf_prov, gdf_nl, df_typed, schema_call, aliased>>

\* the user picks another province
SelectProvince ==
    /\ pc = "dashboard"
    /\ dashboard.pending = <<>>
    /\ \E p \in Range(ProvinceOptions) \ {dashboard.province} :
           dashboard' = [dashboard EXCEPT !.province = p,
                                          !.pending = ProvinceObservers]
    /\ UNCHANGED <<pc, raw_cases, raw_hospital, raw_population, boundaries,
                   df_cases, df_hospital, df_population, df_covid, df_final,
                   gdf_mun, gdf_prov, gdf_nl, df_typed, schema_call, aliased>>

\* the user picks another municipality in the enabled dropdown
SelectMunicipality ==
    /\ pc = "dashboard"
    /\ dashboard.pending = <<>>
    /\ ~dashboard.disabled
    /\ \E m \in Range(dashboard.municipality_options) \ {dashboard.municipality} :
           dashboard' = [dashboard EXCEPT !.municipality = m,
                                          !.pending = MunicipalityObservers]
    /\ UNCHANGED <<pc, raw_cases, raw_hospital, raw_population, boundaries,
                   df_cases, df_hospital, df_population, df_covid, df_final,
                   gdf_mun, gdf_prov, gdf_nl, df_typed, schema_call, aliased>>

\* the user picks another of the offered aggregations in the visible radio
SelectAggregation ==
    /\ pc = "dashboard"
    /\ dashboard.pending = <<>>
    /\ dashboard.display = "block"
    /\ \E a \in Range(dashboard.aggregation_options) \ {dashboard.aggregation} :
           dashboard' = [dashboard EXCEPT !.aggregation = a,
                                          !.pending = AggregationObservers]
    /\ UNCHANGED <<pc, raw_cases, raw_hospital, raw_population, boundaries,
                   df_cases, df_hospital, df_population, df_covid, df_final,
                   gdf_mun, gdf_prov, gdf_nl, df_typed, schema_call, aliased>>

\* the user picks the other chart type (run_dashboard only)
SelectChartType ==
    /\ pc = "dashboard"
    /\ dashboard.pending = <<>>
    /\ dashboard.kind = "run_dashboard"
    /\ \E t \in {"Counts", "Incidence Rates"} \ {dashboard.chart_type} :
           dashboard' = [dashboard EXCEPT !.chart_type = t,
                                          !.pending = ObserversOfChartType(dashboard.kind)]
    /\ UNCHANGED <<pc, raw_cases, raw_hospital, raw_population, boundaries,
                   df_cases, df_hospital, df_population, df_covid, df_final,
                   gdf_mun, gdf_prov, gdf_nl, df_typed, schema_call, aliased>>

InitDashboard ==
    /\ pc = "dashboard"
    /\ raw_cases = <<>> /\ raw_hospital = <<>> /\ raw_population = <<>>
    /\ boundaries = <<>>
    /\ df_cases = <<>> /\ df_hospital = <<>> /\ df_population = <<>>
    /\ df_covid = <<>> /\ df_final = <<>>
    /\ gdf_mun = <<>> /\ gdf_prov = <<>> /\ gdf_nl = <<>>
    /\ df_typed = <<>>
    /\ schema_call = NoCall
    /\ dashboard \in {DashboardBuilt("run_dashboard"),
                      DashboardBuilt("create_interactive_covid_chart")}
    /\ aliased = {}

NextDashboard ==
    \/ RunObserver
    \/ SelectProvince
    \/ SelectMunicipality
    \/ SelectAggregation
    \/ SelectChartType

SpecDashboard == InitDashboard /\ [][NextDashboard]_vars

\* all observers have run
ControlsSettled == pc = "dashboard" /\ dashboard.pending = <<>>

SpecificMunicipality == ~dashboard.disabled /\ dashboard.municipality # "All"

\* the municipality update_plot last filtered by is 'All' or one of the
\* province it drew (of any province when it drew the whole country)
PlotOfOneProvince ==
    \/ dashboard.plot.municipality \in {"none", "All"}
    \/ dashboard.plot.province \in GeneralProvinces
    \/ dashboard.plot.municipality \in Range(MunicipalitiesOf(dashboard.plot.province))

\* C30: once all observers have run, the municipality dropdown is disabled
\* with value 'All' exactly when the province is 'Netherlands' or 'All
\* Provinces', the aggregation is one of the offered options and is not
\* 'Municipalities' while a specific municipality is selected; and update_plot
\* never runs with a municipality that is not of the selected province.
C30_ControlsConsistent ==
    /\ ControlsSettled =>
           /\ (dashboard.disabled /\ dashboard.municipality = "All")
                  <=> dashboard.province \in GeneralProvinces
           /\ dashboard.aggregation \in Range(dashboard.aggregation_options)
           /\ ~(dashboard.aggregation = "Municipalities" /\ SpecificMunicipality)
    /\ pc = "dashboard" => PlotOfOneProvince

\* the step from one position of the chain to the next
Step(from, to) == pc = from /\ pc' = to

\* C19: each transform leaves the tables it is given as they were (after
\* the call every table of the caller has the rows, columns and values it had
\* before) and returns a fresh table, one that is the object of no parameter.
C19_InputsUnchanged ==
    [][/\ Step("load_cases", "cases_cleaned") =>
              raw_cases' = raw_cases /\ aliased' = {}
       /\ Step("cases_cleaned", "hospital_cleaned") =>
              raw_hospital' = raw_hospital /\ aliased' = {}
       /\ Step("hospital_cleaned", "load_population") =>
              df_cases' = df_cases /\ df_hospital' = df_hospital /\ aliased' = {}
       /\ Step("load_population", "population_cleaned") =>
              raw_population' = raw_population /\ aliased' = {}
       /\ Step("population_cleaned", "final") =>
              df_covid' = df_covid /\ df_population' = df_population
                  /\ aliased' = {}
       /\ Step("final", "load_boundaries") =>
              df_final' = df_final /\ aliased' = {}
       /\ Step("load_boundaries", "municipality_geo") =>
              df_final' = df_final /\ boundaries' = boundaries /\ aliased' = {}
       /\ Step("municipality_geo", "province_geo") =>
              gdf_mun' = gdf_mun /\ aliased' = {}
       /\ Step("province_geo", "national_geo") =>
              gdf_mun' = gdf_mun /\ aliased' = {}]_vars

\* every transform was given a table with a row and returned a table with a
\* row; the statements that write in place had something to change (the dates
\* parsed and the columns renamed, a value cast, a rate column added) and no
\* returned table is the object of a parameter
C19_Witness ==
    /\ pc = "national_geo"
    /\ raw_cases # <<>> /\ raw_hospital # <<>> /\ raw_population # <<>>
    /\ boundaries # <<>>
    /\ df_cases # <<>> /\ df_hospital # <<>> /\ df_population # <<>>
    /\ df_covid # <<>> /\ df_final # <<>>
    /\ ParseCaseDates(raw_cases) # raw_cases
    /\ ParseHospitalDates(raw_hospital) # raw_hospital
    /\ df_typed # df_final
    /\ MapSeq(df_final, GeoRateRow) # df_final
    /\ \E r \in Range(gdf_mun) : r.Date # NaN
    /\ gdf_prov # <<>> /\ gdf_nl # <<>>
    /\ aliased = {}

\* f is metric / population * 100000 in float arithmetic: the exact quotient
\* for a population above 0, inf or NaN for the population 0
IsLevelRate(f, metric, population) ==
    IF population > 0
    THEN /\ f[2] > 0 /\ population % f[2] = 0
         /\ f[1] * (population \div f[2]) = metric * Quarter * Per100k
    ELSE f = (IF metric > 0 THEN InfRate ELSE NaNRate)

\* the row carries the sums of the member rows and the rates of these sums
IsLevelRow(r, members) ==
    /\ \A c \in GeoMetrics : r[c] = SumCol(members, c)
    /\ IsLevelRate(r.Incidence_rate_cases,
                   SumCol(members, "Total_reported"), SumCol(members, "Population"))
    /\ IsLevelRate(r.Incidence_rate_deaths,
                   SumCol(members, "Deceased"), SumCol(members, "Population"))
    /\ IsLevelRate(r.Incidence_rate_hospital,
                   SumCol(members, "Hospital_admission"), SumCol(members, "Population"))

\* C21: each province row of a date carries the sums over the municipality
\* rows of that date and province and the rates of these sums, and each
\* national row the sums over all municipality rows of its date and the rates
\* of these sums.
C21_LevelRatesFromOwnSums ==
    pc = "national_geo" =>
        /\ \A r \in Range(gdf_prov) :
               r.Date # NaN =>
                   IsLevelRow(r, SelectSeq(gdf_mun, LAMBDA m :
                                     m.Date = r.Date /\ m.Province = r.Province))
        /\ \A r \in Range(gdf_nl) :
               IsLevelRow(r, RowsOn(gdf_mun, r.Date))

\* a province of two municipalities, one of them without population: its
\* rate is the rate of no member, nor their sum
C21_Witness ==
    /\ pc = "national_geo"
    /\ \E r \in Range(gdf_prov) :
           /\ r.Date # NaN /\ r.Population > 0
           /\ Len(SelectSeq(gdf_mun, LAMBDA m :
                      m.Date = r.Date /\ m.Province = r.Province)) = 2
           /\ \A m \in Range(gdf_mun) :
                  m.Incidence_rate_cases # r.Incidence_rate_cases
    /\ \E r \in Range(gdf_nl) :
           /\ Len(RowsOn(gdf_mun, r.Date)) = 3
           /\ r.Population > 0

====
